---- MODULE Spec2Model ----
(***************************************************************************)
(* Cross-filter dashboard over the animal-shelter table.                   *)
(*                                                                         *)
(* Three variants of the cross-filter app are modelled side by side:       *)
(*   "copy"    src/app_cross_filter_state_mamagement_plotly copy/          *)
(*   "modular" src/app_cross_filter_state_mamagement_plotly/               *)
(*   "single"  src/app_cross_filter_state_mamagement_plotly.py             *)
(* The variable `variant` is fixed in Init and selects whose code runs.    *)
(*                                                                         *)
(* State: the CSV as read, the loaded DataFrame df, the five dcc.Store     *)
(* values, the outputs of the last update_ui run, and the position of the  *)
(* callback chain.  The clickData props of the five charts and the         *)
(* predecessors of the requested callbacks are followed by ChainSpec, the  *)
(* single file with its reset_click_data callback; the other               *)
(* specifications follow the stores and take the payload of a click from   *)
(* the event.                                                              *)
(***************************************************************************)
EXTENDS Integers, Sequences, FiniteSets, TLC

VARIABLES variant, csv, df, store, ui, pending, last, err, clickData, predecessors

vars == <<variant, csv, df, store, ui, pending, last, err, clickData, predecessors>>

Variants == {"copy", "modular", "single"}

(***************************************************************************)
(* Python / JSON values held by the stores and carried by clickData.       *)
(* A value is a str, an int or None; == between a str and an int is False. *)
(***************************************************************************)
Str(s) == [t |-> "str", s |-> s, n |-> 0]

Int_(n) == [t |-> "int", s |-> "", n |-> n]

None == [t |-> "none", s |-> "", n |-> 0]

All == Str("All")

\* Decimal literals of the model's domain, as int("...") reads them.
IntLiteral ==
    ("2020" :> 2020) @@ ("2021" :> 2021) @@ ("2022" :> 2022) @@
    ("2023" :> 2023) @@ ("2024" :> 2024)

\* int() that parses no string.
int_no_parse(v) ==
    CASE v.t = "int" -> [ok |-> TRUE, n |-> v.n, exc |-> ""]
      [] v.t = "str" -> [ok |-> FALSE, n |-> 0, exc |-> "ValueError"]
      [] OTHER -> [ok |-> FALSE, n |-> 0, exc |-> "TypeError"]

\* int(v): ok with the number, or the exception Python raises.
int(v) ==
    CASE v.t = "int" -> [ok |-> TRUE, n |-> v.n, exc |-> ""]
      [] v.t = "str" /\ v.s \in DOMAIN IntLiteral ->
            [ok |-> TRUE, n |-> IntLiteral[v.s], exc |-> ""]
      [] v.t = "str" -> [ok |-> FALSE, n |-> 0, exc |-> "ValueError"]
      [] OTHER -> [ok |-> FALSE, n |-> 0, exc |-> "TypeError"]

\* str(v), used where the spec speaks of string comparison.
str(v) ==
    CASE v.t = "str" -> v.s
      [] v.t = "int" ->
            (CHOOSE lit \in DOMAIN IntLiteral : IntLiteral[lit] = v.n)
      [] OTHER -> "None"

(***************************************************************************)
(* The CSV as pd.read_csv returns it: cells are strings, a blank cell is   *)
(* NA (NaN).  Dates are ISO strings; to_datetime(errors="coerce") maps     *)
(* anything else to NaT.  A parsed date is a day number counted from       *)
(* 2021-01-01 (2021, 2022 and 2023 have 365 days; a day before it is in   *)
(* 2020).                                                                  *)
(***************************************************************************)
NA == "<NA>"

\* NaT / NaN: no date, year or day difference of the model's domain equals it.
NaT == -100000

UNKNOWN == "Unknown"

LIVE_OUTCOMES == {"ADOPTION", "TRANSFER", "RETURN TO OWNER", "RTOS", "RELOCATE"}

DateLiteral ==
    ("2021-03-01" :> 59) @@ ("2021-12-30" :> 363) @@
    ("2022-01-04" :> 368) @@ ("2022-07-01" :> 546)

_parse_dates(cell) ==
    IF cell \in DOMAIN DateLiteral THEN DateLiteral[cell] ELSE NaT

\* Series.dt.year
dt_year(d) ==
    IF d = NaT THEN NaT ELSE IF d < 0 THEN 2020 ELSE 2021 + (d \div 365)

\* str.strip() on the padded cells of the model's domain.
Padded == (" CAT " :> "CAT") @@ ("   " :> "")

str_strip(cell) == IF cell \in DOMAIN Padded THEN Padded[cell] ELSE cell

\* copy/data_loader.py: strip, then "", "nan", "None" and NA become Unknown.
_normalize_text(cell) ==
    LET s == IF cell = NA THEN NA ELSE str_strip(cell)
    IN  IF s \in {NA, "", "nan", "None"} THEN UNKNOWN ELSE s

\* modular/data_loader.py: astype("string").str.strip().fillna(UNKNOWN).
normalize_modular(cell) ==
    IF cell = NA THEN UNKNOWN ELSE str_strip(cell)

\* (Outcome Date - Intake Date).dt.days, NaN when either date is NaT.
delta_days(idate, odate) ==
    IF idate = NaT \/ odate = NaT THEN NaT ELSE odate - idate

(***************************************************************************)
(* Rows of the CSV.  A run reads either a file with a header and no rows   *)
(* or the file made of the first MaxRows rows of RawPool.  hasAlive says   *)
(* whether the file has an outcome_is_alive column (its cells are TRUE,    *)
(* FALSE or blank), hasDuration whether it has an intake_duration column   *)
(* (its cells are whole numbers).  The files read have both optional       *)
(* columns, the first only, or neither.                                    *)
(***************************************************************************)
MaxRows == 5

Raw(sp, it, ot, idate, odate, alive, duration) ==
    [species |-> sp, intake |-> it, outcome |-> ot,
     idate |-> idate, odate |-> odate, alive |-> alive, duration |-> duration]

RawPool ==
    << Raw("DOG",   "STRAY",           "ADOPTION",   "2021-03-01", "2021-12-30", "TRUE",  304),
       Raw(" CAT ", "OWNER SURRENDER", "EUTHANASIA", "2021-12-30", "2022-01-04", "FALSE", 5),
       Raw("DOG",   "STRAY",           "RTOS",       "2022-01-04", "2021-12-30", NA,      -5),
       Raw("CAT",   "STRAY",           NA,           "2022-07-01", NA,           NA,      7),
       Raw("   ",   NA,                "ADOPTION",   "13/13/2021", "2022-07-01", "TRUE",  0),
       Raw("DOG",   "STRAY",           "TRANSFER",   "2021-03-01", "2021-03-01", "TRUE",  0) >>

FileRows == IF MaxRows < Len(RawPool) THEN MaxRows ELSE Len(RawPool)

Headers == {<<TRUE, TRUE>>, <<TRUE, FALSE>>, <<FALSE, FALSE>>}

RawTables ==
    { [hasAlive |-> h[1], hasDuration |-> h[2], rows |-> SubSeq(RawPool, 1, FileRows)] :
        h \in Headers }
    \cup { [hasAlive |-> TRUE, hasDuration |-> TRUE, rows |-> <<>>] }

\* Series.map({"TRUE": True, "FALSE": False, True: True, False: False}):
\* a cell that is no key of the dict becomes NaN.
map_alive(cell) ==
    CASE cell = "TRUE" -> "True"
      [] cell = "FALSE" -> "False"
      [] OTHER -> NA

\* One loaded row.  idx is the DataFrame index label of the row.
Row(i, sp, it, ot, idate, odate, dur, alive) ==
    [idx |-> i, AnimalType |-> sp, IntakeType |-> it, OutcomeType |-> ot,
     IntakeDate |-> idate, OutcomeDate |-> odate,
     intake_duration |-> dur, outcome_is_alive |-> alive,
     IntakeYear |-> dt_year(idate), OutcomeYear |-> dt_year(odate)]

\* copy/data_loader.py load_data, the file being present.
load_row_copy(i, r, hasAlive, hasDuration) ==
    LET idate == _parse_dates(r.idate)
        odate == _parse_dates(r.odate)
        ot    == _normalize_text(r.outcome)
        delta == delta_days(idate, odate)
        dur0  == IF delta = NaT THEN 0 ELSE delta
        dur   == IF dur0 < 0 THEN 0 ELSE dur0
        alive == IF hasAlive
                   THEN (IF map_alive(r.alive) = NA THEN "False" ELSE map_alive(r.alive))
                   ELSE (IF ot \in LIVE_OUTCOMES THEN "True" ELSE "False")
    IN  Row(i, _normalize_text(r.species), _normalize_text(r.intake), ot,
            idate, odate, dur, alive)

\* modular/data_loader.py load_data, the file being present; the duration
\* is derived only when the file has no intake_duration column.
load_row_modular(i, r, hasAlive, hasDuration) ==
    LET idate == _parse_dates(r.idate)
        odate == _parse_dates(r.odate)
        delta == delta_days(idate, odate)
        dur0  == IF delta = NaT THEN 0 ELSE delta
        dur   == IF hasDuration THEN r.duration
                 ELSE IF dur0 < 0 THEN 0 ELSE dur0
        alive == IF hasAlive THEN map_alive(r.alive) ELSE "False"
    IN  Row(i, normalize_modular(r.species), normalize_modular(r.intake),
            normalize_modular(r.outcome), idate, odate, dur, alive)

\* single file, lines 12-22 and 43-44: no text clean-up, no clamp of the
\* duration; the outcome_is_alive column is read unconditionally.
load_row_single(i, r, hasAlive, hasDuration) ==
    LET idate == _parse_dates(r.idate)
        odate == _parse_dates(r.odate)
        delta == delta_days(idate, odate)
        dur   == IF hasDuration THEN r.duration
                 ELSE IF delta = NaT THEN 0 ELSE delta
    IN  Row(i, r.species, r.intake, r.outcome, idate, odate, dur, map_alive(r.alive))

(***************************************************************************)
(* The file missing: pd.read_csv raises FileNotFoundError.  The copy       *)
(* variant and the single file then build a table of n = 1000 rows from    *)
(* np.random seeded with 42; the modular loader returns pd.DataFrame(), a  *)
(* frame without rows and without columns.  The dates of the table run     *)
(* from 2020-01-01 (day -366; 2020 has 366 days) to 2023-12-31 (day 1094). *)
(***************************************************************************)
FileNotFound == [hasAlive |-> FALSE, hasDuration |-> FALSE, rows |-> <<>>,
                 errno |-> "ENOENT"]

\* Rows of the generated table (n).
DummyN == 1000

\* The arrays np.random returns after np.random.seed(42) for the calls of
\* _generate_dummy_data, in call order (a choice as the 1-based position of
\* the element chosen): randint(1, 60, n), choice of Animal Type, of Intake
\* Type, of Outcome Type and, in the single file only, of outcome_is_alive.
seed42 ==
    [randint |->
    << 39, 52, 29, 15, 43, 8, 21, 39, 58, 19, 23, 11, 11, 24, 53, 36, 40, 24,
       3, 22, 53, 2, 24, 44, 30, 38, 2, 21, 33, 12, 58, 22, 44, 25, 49, 27,
       59, 42, 28, 16, 15, 47, 51, 44, 55, 52, 57, 3, 37, 51, 7, 21, 9, 39,
       18, 4, 25, 14, 50, 58, 9, 26, 53, 2, 20, 28, 47, 7, 44, 8, 47, 35, 14,
       17, 36, 50, 40, 4, 2, 6, 54, 42, 4, 54, 29, 18, 26, 44, 34, 10, 36,
       14, 31, 48, 15, 8, 14, 23, 57, 40, 21, 16, 45, 18, 47, 53, 24, 26, 25,
       45, 41, 29, 15, 45, 1, 25, 7, 9, 24, 1, 44, 8, 24, 11, 51, 17, 8, 35,
       35, 33, 59, 5, 42, 39, 58, 41, 28, 7, 9, 8, 12, 34, 33, 48, 55, 23,
       24, 37, 35, 44, 40, 22, 27, 35, 1, 35, 37, 47, 14, 3, 1, 5, 26, 55,
       14, 39, 27, 9, 15, 15, 26, 42, 13, 51, 32, 39, 49, 52, 32, 4, 30, 37,
       23, 39, 45, 15, 43, 29, 36, 13, 32, 7, 59, 51, 22, 28, 2, 42, 45, 57,
       53, 6, 28, 28, 44, 44, 20, 30, 11, 58, 55, 28, 25, 39, 33, 1, 57, 27,
       57, 52, 13, 41, 3, 39, 6, 8, 27, 9, 37, 33, 51, 42, 44, 24, 15, 59,
       54, 32, 32, 24, 41, 52, 49, 49, 58, 52, 12, 39, 2, 3, 49, 37, 49, 56,
       17, 59, 49, 2, 2, 28, 54, 23, 37, 32, 33, 1, 19, 2, 53, 44, 26, 32, 6,
       32, 55, 4, 55, 11, 56, 59, 17, 38, 24, 5, 52, 34, 6, 22, 11, 48, 16,
       33, 9, 59, 6, 16, 29, 3, 20, 59, 36, 19, 26, 3, 19, 20, 32, 7, 52, 41,
       33, 40, 39, 18, 40, 1, 11, 28, 57, 25, 50, 23, 31, 30, 42, 35, 7, 16,
       26, 48, 57, 52, 49, 2, 1, 48, 12, 5, 37, 32, 59, 55, 9, 41, 35, 19,
       48, 16, 3, 20, 24, 54, 56, 33, 24, 52, 11, 49, 8, 36, 38, 40, 20, 35,
       48, 25, 35, 25, 29, 18, 46, 18, 2, 54, 35, 16, 41, 36, 33, 4, 33, 14,
       21, 48, 20, 56, 8, 7, 3, 17, 33, 48, 12, 59, 51, 22, 55, 22, 46, 30,
       38, 38, 45, 51, 54, 8, 27, 27, 34, 21, 30, 33, 28, 47, 33, 5, 48, 19,
       4, 35, 49, 17, 44, 28, 30, 29, 46, 53, 6, 35, 41, 37, 24, 29, 49, 46,
       53, 31, 35, 33, 52, 21, 32, 23, 33, 3, 18, 25, 42, 31, 54, 58, 3, 40,
       46, 24, 50, 32, 47, 22, 23, 2, 27, 42, 2, 26, 17, 40, 33, 9, 43, 54,
       48, 39, 29, 42, 55, 26, 35, 50, 25, 24, 13, 58, 7, 57, 36, 45, 20, 1,
       8, 46, 16, 14, 12, 51, 23, 15, 28, 34, 2, 32, 23, 22, 51, 25, 58, 22,
       58, 58, 22, 49, 52, 42, 6, 15, 54, 43, 37, 33, 8, 53, 44, 44, 5, 39,
       4, 6, 45, 32, 52, 30, 47, 35, 55, 40, 52, 16, 13, 50, 42, 30, 19, 17,
       56, 19, 28, 58, 55, 26, 37, 26, 53, 23, 9, 12, 53, 1, 58, 58, 1, 47,
       34, 32, 54, 48, 25, 40, 45, 53, 1, 16, 39, 5, 22, 29, 55, 3, 12, 26,
       16, 51, 37, 22, 57, 29, 14, 28, 5, 47, 49, 30, 46, 52, 5, 12, 16, 26,
       26, 48, 21, 39, 36, 33, 30, 37, 23, 58, 10, 54, 5, 36, 34, 52, 31, 10,
       58, 19, 58, 32, 1, 56, 5, 45, 4, 16, 24, 16, 55, 2, 49, 28, 32, 27,
       20, 24, 12, 50, 35, 33, 33, 51, 43, 37, 12, 3, 1, 33, 40, 10, 43, 44,
       29, 13, 12, 31, 46, 2, 51, 50, 35, 23, 17, 26, 8, 29, 26, 10, 26, 34,
       51, 41, 7, 4, 58, 53, 50, 45, 11, 29, 56, 36, 25, 21, 57, 36, 10, 37,
       9, 24, 35, 49, 35, 48, 36, 18, 49, 39, 32, 24, 23, 32, 37, 12, 49, 55,
       13, 23, 25, 35, 41, 30, 17, 49, 20, 48, 25, 22, 13, 59, 19, 49, 36,
       12, 41, 19, 12, 9, 7, 28, 14, 31, 52, 19, 58, 47, 16, 53, 5, 35, 12,
       25, 52, 59, 21, 36, 53, 23, 16, 57, 39, 45, 53, 42, 58, 39, 14, 31,
       58, 5, 35, 23, 29, 43, 11, 18, 47, 12, 9, 10, 58, 44, 17, 38, 7, 46,
       13, 40, 42, 9, 50, 27, 58, 2, 5, 29, 37, 38, 19, 8, 48, 45, 1, 22, 52,
       17, 7, 25, 45, 4, 36, 6, 31, 19, 44, 54, 39, 27, 10, 26, 19, 39, 3,
       45, 13, 50, 28, 58, 20, 28, 8, 41, 39, 1, 3, 13, 28, 57, 49, 25, 56,
       33, 38, 53, 6, 58, 44, 45, 32, 45, 47, 21, 16, 54, 21, 11, 37, 36, 35,
       19, 20, 57, 18, 47, 41, 49, 14, 15, 31, 1, 53, 54, 54, 3, 16, 23, 57,
       11, 12, 10, 32, 16, 8, 38, 12, 24, 28, 53, 8, 58, 28, 36, 26, 8, 58,
       50, 28, 28, 37, 41, 36, 27, 54, 17, 9, 33, 53, 20, 13, 28, 48, 29, 13,
       46, 35, 6, 18, 51, 5, 47, 25, 2, 10, 56, 30, 50, 59, 45, 5, 55, 56,
       33, 54, 1, 18, 32, 47, 49, 11, 21, 26, 25, 22, 59, 27, 49, 13, 33, 34,
       41, 35, 1, 21, 48, 55, 6, 28, 17, 5, 31, 5, 38, 3, 53, 23, 37, 53, 37,
       10, 10, 19, 17, 21, 14, 9, 46, 1, 51, 45, 13, 4, 1, 49, 40, 32, 34,
       28, 31, 8, 39, 26, 58, 34, 54, 54, 3, 59, 50, 12, 1, 54, 44, 5, 30,
       30, 59, 57, 17, 48, 47 >>,
     AnimalType |->
    << 1, 2, 2, 2, 3, 2, 4, 2, 2, 2, 1, 2, 2, 1, 3, 1, 2, 2, 2, 1, 2, 2, 1,
       1, 2, 1, 1, 2, 1, 2, 1, 2, 1, 2, 1, 2, 1, 2, 2, 4, 2, 1, 2, 1, 1, 1,
       2, 2, 1, 2, 1, 1, 1, 1, 1, 2, 2, 1, 1, 1, 2, 1, 2, 4, 2, 3, 1, 2, 2,
       2, 1, 1, 1, 2, 2, 2, 1, 2, 1, 1, 1, 2, 1, 2, 2, 1, 2, 1, 1, 1, 1, 2,
       1, 2, 2, 2, 2, 2, 1, 1, 2, 2, 1, 1, 1, 3, 1, 1, 1, 1, 2, 1, 2, 1, 2,
       1, 1, 2, 4, 2, 2, 3, 1, 4, 1, 2, 2, 2, 2, 1, 2, 1, 4, 2, 1, 2, 2, 2,
       2, 1, 2, 3, 1, 2, 1, 1, 2, 2, 1, 2, 1, 1, 1, 1, 1, 2, 2, 1, 2, 2, 1,
       3, 4, 1, 1, 3, 2, 1, 2, 2, 2, 2, 2, 1, 1, 2, 3, 1, 2, 2, 1, 2, 2, 2,
       2, 1, 2, 1, 1, 2, 1, 1, 2, 1, 1, 2, 2, 1, 2, 1, 2, 2, 4, 2, 2, 2, 1,
       1, 2, 1, 2, 1, 2, 1, 1, 2, 2, 2, 1, 1, 2, 1, 2, 2, 2, 2, 2, 4, 1, 1,
       1, 1, 2, 3, 1, 1, 1, 2, 2, 1, 3, 2, 1, 2, 2, 1, 1, 1, 1, 2, 3, 1, 1,
       1, 1, 2, 1, 1, 1, 2, 1, 2, 1, 2, 2, 1, 1, 2, 3, 1, 1, 3, 2, 1, 3, 1,
       2, 1, 1, 1, 2, 1, 1, 1, 2, 4, 1, 2, 2, 2, 1, 1, 1, 1, 1, 2, 1, 1, 2,
       1, 2, 2, 1, 2, 2, 2, 1, 1, 2, 1, 1, 1, 2, 1, 2, 2, 2, 4, 2, 2, 1, 2,
       1, 1, 2, 2, 1, 2, 2, 2, 2, 2, 4, 2, 2, 4, 3, 1, 1, 1, 1, 2, 2, 2, 1,
       2, 2, 2, 3, 2, 1, 2, 1, 1, 2, 1, 2, 1, 2, 1, 4, 2, 1, 2, 4, 1, 1, 1,
       2, 2, 2, 1, 1, 2, 1, 1, 3, 2, 2, 2, 2, 2, 1, 1, 1, 1, 2, 1, 1, 1, 1,
       2, 1, 2, 1, 2, 2, 1, 2, 1, 1, 4, 1, 1, 2, 1, 2, 1, 3, 2, 2, 3, 1, 4,
       1, 1, 1, 2, 1, 2, 2, 4, 1, 2, 1, 1, 1, 1, 2, 2, 1, 1, 1, 1, 4, 1, 1,
       1, 2, 4, 2, 2, 2, 1, 4, 2, 2, 2, 2, 2, 4, 3, 2, 2, 1, 2, 1, 2, 4, 2,
       1, 1, 1, 2, 1, 1, 1, 2, 2, 1, 1, 2, 2, 2, 1, 2, 1, 2, 2, 1, 1, 2, 2,
       2, 2, 2, 2, 1, 2, 1, 1, 4, 1, 1, 1, 3, 1, 1, 1, 1, 1, 1, 2, 1, 1, 1,
       1, 2, 2, 1, 1, 1, 2, 2, 2, 1, 3, 1, 1, 1, 1, 4, 2, 1, 2, 4, 2, 2, 3,
       4, 2, 1, 1, 2, 1, 2, 1, 1, 1, 1, 4, 2, 2, 2, 1, 2, 2, 2, 1, 2, 1, 4,
       2, 1, 2, 2, 1, 2, 2, 1, 1, 1, 1, 1, 2, 1, 1, 3, 2, 1, 1, 1, 2, 1, 2,
       4, 1, 2, 4, 1, 2, 2, 3, 2, 2, 2, 2, 2, 2, 2, 1, 1, 1, 1, 1, 3, 1, 2,
       1, 2, 4, 1, 2, 1, 2, 1, 3, 1, 2, 2, 1, 1, 1, 1, 2, 1, 1, 1, 2, 1, 1,
       1, 1, 2, 1, 1, 2, 2, 1, 2, 3, 1, 2, 2, 1, 1, 1, 2, 4, 2, 1, 2, 2, 1,
       1, 2, 1, 2, 1, 1, 1, 1, 3, 1, 2, 2, 2, 1, 2, 2, 1, 1, 2, 4, 1, 2, 3,
       2, 4, 2, 1, 1, 1, 2, 2, 1, 2, 2, 2, 1, 2, 1, 1, 1, 1, 1, 2, 1, 2, 1,
       3, 4, 1, 1, 1, 2, 2, 1, 2, 1, 1, 2, 1, 2, 1, 4, 1, 1, 2, 1, 4, 2, 2,
       2, 4, 3, 2, 2, 1, 1, 2, 1, 1, 1, 1, 2, 3, 1, 2, 2, 1, 2, 1, 1, 4, 1,
       2, 2, 1, 2, 4, 1, 2, 2, 2, 2, 1, 3, 3, 2, 2, 2, 1, 2, 2, 2, 2, 1, 1,
       1, 1, 2, 2, 2, 1, 2, 1, 1, 2, 2, 1, 1, 1, 1, 2, 1, 2, 1, 1, 1, 1, 1,
       1, 2, 1, 4, 1, 2, 2, 2, 2, 2, 2, 2, 2, 1, 1, 2, 2, 2, 2, 4, 1, 1, 1,
       1, 2, 1, 2, 1, 2, 2, 1, 2, 1, 1, 1, 1, 1, 2, 2, 2, 1, 2, 1, 1, 2, 1,
       2, 2, 1, 1, 1, 2, 1, 1, 1, 2, 1, 1, 2, 3, 1, 1, 1, 2, 1, 2, 2, 2, 1,
       2, 2, 2, 1, 4, 1, 1, 1, 2, 1, 1, 1, 1, 2, 2, 1, 1, 2, 1, 1, 4, 2, 1,
       2, 1, 2, 1, 1, 1, 3, 2, 1, 1, 2, 1, 1, 4, 1, 2, 4, 1, 1, 1, 2, 2, 2,
       1, 2, 3, 2, 3, 2, 2, 2, 1, 1, 2, 1, 2, 4, 2, 1, 1, 1, 2, 2, 3, 1, 3,
       2, 1, 2, 1, 1, 2, 1, 2, 2, 2, 1, 2, 2, 2, 1, 1, 2, 1, 2, 2, 2, 2, 4,
       2, 3, 2, 1, 1, 2, 1, 1, 1, 2, 2, 2, 2, 2, 1, 2, 1, 4, 2, 1, 1, 1, 1,
       1, 2, 2, 2, 3, 2, 2, 1, 2, 1, 4, 2, 2, 1, 2, 2, 1, 1, 2, 1, 3, 1, 1,
       2, 1, 2, 1, 1, 2, 2, 2, 2, 2, 1 >>,
     IntakeType |->
    << 1, 1, 2, 4, 4, 4, 1, 2, 3, 1, 4, 2, 4, 3, 4, 4, 3, 2, 1, 2, 3, 4, 2,
       1, 3, 2, 1, 3, 1, 3, 4, 2, 1, 3, 1, 1, 2, 4, 1, 3, 3, 4, 3, 4, 3, 2,
       1, 2, 1, 1, 1, 2, 1, 2, 4, 3, 3, 1, 2, 3, 2, 2, 1, 3, 1, 1, 3, 3, 4,
       4, 2, 3, 4, 2, 2, 2, 4, 3, 1, 2, 4, 4, 1, 1, 4, 3, 1, 4, 1, 3, 2, 1,
       3, 4, 1, 1, 4, 2, 4, 1, 4, 3, 4, 1, 4, 2, 4, 2, 3, 2, 4, 1, 2, 3, 2,
       2, 2, 3, 4, 2, 2, 1, 3, 2, 3, 2, 4, 4, 2, 4, 2, 4, 1, 1, 1, 3, 3, 1,
       3, 4, 2, 2, 2, 1, 3, 4, 4, 1, 4, 4, 4, 4, 3, 4, 2, 1, 3, 4, 3, 4, 2,
       1, 4, 4, 4, 4, 1, 1, 2, 1, 4, 2, 2, 2, 4, 3, 4, 1, 1, 4, 4, 2, 4, 2,
       1, 2, 4, 1, 3, 2, 1, 2, 1, 1, 2, 3, 1, 1, 1, 3, 3, 4, 2, 3, 2, 4, 2,
       3, 2, 3, 2, 3, 3, 2, 4, 1, 4, 2, 4, 3, 1, 2, 2, 2, 1, 3, 2, 4, 2, 2,
       2, 2, 3, 4, 3, 4, 2, 1, 3, 1, 3, 2, 3, 2, 3, 2, 2, 4, 2, 4, 2, 1, 2,
       1, 1, 2, 1, 4, 3, 2, 1, 2, 4, 2, 2, 1, 4, 3, 3, 1, 2, 1, 1, 1, 2, 4,
       1, 2, 4, 1, 3, 4, 1, 4, 4, 4, 4, 4, 4, 1, 3, 2, 4, 2, 1, 4, 3, 2, 4,
       1, 3, 2, 2, 4, 3, 3, 3, 3, 1, 3, 2, 2, 1, 2, 2, 3, 2, 1, 3, 4, 3, 1,
       3, 3, 1, 3, 1, 1, 4, 2, 2, 3, 3, 4, 4, 4, 1, 4, 4, 3, 4, 1, 1, 3, 4,
       4, 1, 4, 4, 4, 2, 3, 2, 3, 1, 4, 3, 2, 4, 1, 3, 3, 3, 4, 2, 2, 3, 1,
       1, 2, 1, 2, 3, 2, 2, 3, 1, 2, 2, 3, 1, 2, 3, 2, 4, 3, 1, 1, 1, 1, 2,
       2, 1, 1, 1, 2, 1, 1, 4, 4, 1, 3, 1, 4, 3, 3, 1, 4, 4, 3, 1, 2, 2, 4,
       2, 4, 4, 4, 2, 4, 3, 1, 1, 4, 1, 2, 2, 1, 2, 1, 1, 1, 4, 1, 4, 1, 1,
       1, 2, 4, 4, 1, 1, 2, 2, 2, 4, 4, 4, 1, 4, 3, 3, 2, 4, 3, 2, 4, 1, 3,
       1, 4, 3, 4, 1, 3, 1, 4, 4, 1, 3, 1, 4, 1, 4, 1, 3, 3, 1, 1, 3, 4, 3,
       4, 1, 1, 4, 1, 4, 2, 3, 2, 4, 3, 4, 3, 3, 3, 3, 4, 3, 3, 2, 1, 1, 2,
       2, 4, 4, 4, 2, 2, 3, 4, 4, 4, 1, 3, 4, 4, 4, 1, 1, 2, 3, 2, 3, 1, 4,
       2, 4, 2, 1, 1, 1, 2, 3, 2, 3, 2, 2, 1, 4, 4, 3, 4, 2, 2, 1, 1, 4, 3,
       4, 4, 4, 4, 2, 3, 2, 3, 1, 4, 2, 3, 1, 1, 4, 3, 2, 4, 2, 1, 2, 2, 4,
       2, 4, 1, 4, 4, 3, 2, 1, 4, 1, 3, 2, 4, 2, 3, 3, 1, 4, 1, 3, 2, 1, 1,
       2, 1, 2, 4, 2, 4, 2, 3, 3, 4, 4, 3, 4, 2, 2, 3, 1, 2, 4, 1, 1, 2, 2,
       1, 1, 3, 4, 3, 2, 3, 3, 3, 3, 4, 4, 1, 2, 3, 1, 1, 1, 4, 3, 3, 2, 3,
       3, 1, 2, 3, 4, 3, 1, 4, 1, 3, 4, 2, 2, 4, 4, 1, 4, 1, 3, 1, 4, 4, 3,
       4, 4, 2, 2, 3, 1, 2, 1, 4, 2, 3, 3, 3, 2, 1, 4, 1, 1, 4, 4, 2, 2, 2,
       2, 2, 4, 1, 2, 2, 1, 2, 1, 1, 4, 3, 4, 3, 3, 3, 2, 4, 3, 1, 2, 4, 3,
       1, 4, 4, 2, 4, 2, 3, 2, 1, 2, 1, 2, 4, 3, 1, 2, 2, 2, 4, 4, 1, 1, 4,
       1, 3, 3, 4, 1, 2, 3, 4, 1, 4, 2, 3, 4, 4, 4, 2, 4, 2, 2, 2, 3, 3, 4,
       4, 3, 1, 3, 2, 3, 2, 4, 1, 4, 2, 2, 2, 1, 3, 4, 4, 3, 4, 1, 4, 2, 3,
       1, 3, 1, 2, 3, 4, 1, 3, 4, 3, 3, 3, 1, 4, 2, 1, 1, 1, 2, 4, 4, 4, 3,
       3, 3, 2, 3, 2, 4, 3, 3, 1, 2, 4, 1, 1, 4, 1, 2, 2, 3, 1, 3, 1, 2, 2,
       2, 1, 2, 1, 3, 1, 3, 1, 3, 2, 3, 2, 2, 3, 1, 1, 4, 1, 4, 1, 1, 2, 4,
       1, 4, 2, 2, 4, 2, 3, 3, 2, 3, 1, 4, 1, 4, 2, 1, 2, 2, 4, 4, 4, 1, 3,
       4, 4, 1, 4, 1, 2, 4, 4, 2, 2, 2, 4, 3, 3, 3, 4, 2, 4, 2, 4, 4, 2, 3,
       2, 1, 1, 2, 4, 1, 1, 4, 4, 3, 4, 2, 2, 3, 1, 1, 4, 2, 1, 3, 3, 2, 3,
       3, 2, 4, 4, 3, 4, 4, 3, 4, 3, 1, 2, 2, 4, 4, 4, 2, 1, 1, 2, 1, 2, 1,
       3, 3, 2, 1, 4, 1, 3, 3, 1, 1, 4, 4, 1, 1, 1, 1, 2, 1, 4, 3, 2, 1, 3,
       2, 3, 1, 1, 4, 1, 1, 2, 4, 2, 3, 1, 3, 2, 1, 1, 2, 2, 2, 2, 2, 1, 2,
       1, 1, 2, 2, 4, 1, 2, 2, 2, 4, 4 >>,
     OutcomeType |->
    << 2, 3, 1, 3, 1, 1, 4, 3, 2, 1, 3, 2, 3, 3, 1, 1, 2, 1, 1, 4, 2, 3, 2,
       2, 1, 1, 1, 1, 3, 1, 2, 1, 1, 2, 1, 1, 1, 1, 3, 1, 1, 2, 1, 3, 2, 2,
       2, 1, 2, 1, 3, 1, 2, 2, 1, 1, 3, 3, 1, 3, 4, 3, 1, 3, 1, 5, 2, 1, 3,
       1, 5, 4, 2, 1, 2, 1, 1, 3, 1, 1, 4, 1, 1, 4, 1, 3, 5, 4, 2, 1, 1, 3,
       3, 2, 1, 1, 1, 3, 2, 4, 3, 1, 2, 2, 2, 3, 3, 3, 1, 1, 3, 1, 1, 1, 2,
       1, 2, 5, 1, 1, 1, 3, 1, 1, 1, 3, 2, 3, 4, 1, 3, 1, 3, 2, 3, 1, 1, 1,
       1, 1, 1, 1, 2, 3, 2, 1, 2, 1, 4, 1, 3, 4, 3, 2, 3, 5, 2, 2, 2, 2, 2,
       2, 1, 1, 1, 1, 1, 2, 1, 3, 1, 1, 3, 2, 1, 3, 3, 1, 1, 5, 2, 2, 3, 1,
       2, 1, 3, 2, 2, 1, 1, 2, 3, 2, 1, 3, 1, 4, 1, 2, 1, 4, 2, 1, 1, 1, 1,
       4, 2, 3, 2, 2, 1, 1, 3, 4, 1, 1, 2, 5, 1, 2, 3, 1, 1, 2, 4, 1, 2, 2,
       2, 2, 2, 2, 2, 2, 2, 3, 1, 3, 3, 1, 2, 2, 1, 1, 1, 1, 3, 1, 3, 2, 3,
       2, 1, 2, 1, 2, 4, 1, 1, 3, 3, 2, 1, 2, 1, 3, 4, 3, 3, 1, 3, 3, 1, 3,
       1, 2, 3, 2, 1, 2, 2, 4, 2, 1, 3, 2, 2, 2, 3, 2, 2, 1, 1, 1, 1, 2, 3,
       2, 3, 5, 3, 2, 2, 2, 1, 1, 4, 3, 1, 2, 3, 1, 1, 3, 2, 1, 2, 3, 2, 1,
       1, 2, 2, 3, 1, 3, 1, 1, 1, 1, 2, 2, 1, 2, 1, 3, 4, 1, 2, 1, 1, 1, 3,
       2, 1, 3, 2, 3, 2, 2, 1, 1, 4, 1, 4, 2, 1, 1, 1, 4, 2, 1, 1, 1, 2, 1,
       3, 1, 1, 2, 2, 5, 2, 1, 2, 1, 1, 4, 3, 5, 2, 2, 1, 1, 3, 1, 3, 3, 1,
       2, 2, 1, 3, 2, 1, 2, 5, 1, 3, 1, 3, 3, 1, 1, 3, 2, 3, 1, 3, 3, 4, 1,
       2, 2, 1, 2, 1, 3, 2, 1, 2, 2, 1, 4, 4, 2, 1, 3, 2, 1, 2, 2, 2, 2, 2,
       4, 1, 3, 3, 2, 2, 2, 2, 3, 2, 5, 1, 1, 2, 1, 1, 1, 1, 1, 4, 1, 3, 3,
       4, 1, 3, 2, 2, 2, 3, 1, 3, 2, 3, 5, 1, 5, 1, 1, 1, 1, 2, 1, 1, 4, 3,
       3, 3, 3, 1, 1, 3, 1, 2, 1, 1, 2, 2, 2, 2, 1, 1, 3, 2, 1, 3, 1, 2, 1,
       3, 2, 1, 3, 2, 1, 1, 1, 1, 2, 3, 2, 1, 1, 1, 2, 3, 1, 3, 3, 2, 3, 2,
       2, 2, 2, 1, 1, 1, 2, 1, 4, 3, 2, 1, 3, 3, 3, 1, 2, 1, 1, 3, 3, 2, 3,
       2, 2, 1, 4, 1, 4, 3, 1, 2, 3, 2, 4, 4, 2, 1, 4, 2, 1, 1, 2, 4, 3, 2,
       1, 1, 3, 1, 1, 1, 2, 4, 1, 2, 2, 5, 1, 2, 1, 3, 2, 1, 2, 3, 1, 3, 1,
       2, 2, 3, 1, 3, 3, 2, 3, 3, 1, 1, 4, 1, 3, 4, 1, 2, 2, 2, 1, 1, 2, 3,
       3, 2, 1, 2, 1, 4, 3, 3, 4, 1, 3, 1, 4, 1, 3, 3, 1, 1, 3, 2, 1, 1, 1,
       3, 2, 1, 1, 1, 1, 2, 1, 1, 3, 1, 2, 2, 2, 2, 2, 3, 2, 2, 3, 2, 1, 1,
       1, 3, 3, 4, 2, 2, 1, 2, 2, 5, 1, 2, 2, 2, 2, 3, 1, 3, 2, 3, 3, 1, 1,
       5, 2, 4, 1, 2, 3, 4, 1, 3, 2, 1, 2, 2, 4, 2, 1, 1, 2, 1, 3, 1, 4, 4,
       2, 4, 3, 2, 1, 2, 2, 3, 2, 3, 2, 1, 5, 2, 1, 2, 1, 2, 2, 2, 4, 2, 1,
       2, 4, 1, 1, 1, 1, 3, 3, 1, 2, 1, 4, 4, 1, 3, 3, 1, 1, 2, 3, 4, 3, 3,
       2, 3, 3, 1, 2, 3, 1, 3, 1, 2, 3, 1, 1, 2, 3, 1, 4, 1, 5, 4, 2, 2, 2,
       2, 1, 1, 1, 2, 1, 2, 5, 1, 2, 2, 3, 4, 3, 4, 1, 3, 3, 1, 4, 1, 2, 1,
       2, 3, 2, 2, 1, 3, 1, 2, 4, 3, 2, 3, 3, 3, 2, 1, 1, 1, 2, 1, 2, 1, 1,
       3, 2, 1, 3, 1, 3, 3, 1, 3, 2, 2, 1, 1, 4, 1, 2, 2, 2, 1, 1, 3, 1, 1,
       1, 2, 3, 1, 1, 1, 3, 2, 2, 3, 2, 3, 3, 1, 1, 1, 1, 5, 2, 1, 3, 2, 1,
       1, 2, 3, 1, 1, 2, 1, 2, 2, 1, 4, 2, 1, 2, 3, 3, 1, 4, 2, 1, 1, 1, 3,
       1, 1, 3, 1, 1, 1, 1, 1, 2, 1, 1, 3, 2, 2, 2, 1, 2, 2, 1, 4, 1, 3, 1,
       3, 2, 3, 1, 2, 2, 3, 2, 2, 2, 1, 2, 1, 4, 3, 4, 1, 3, 3, 2, 2, 1, 3,
       2, 1, 1, 4, 3, 5, 2, 1, 1, 1, 1, 1, 1, 2, 4, 2, 3, 2, 1, 1, 1, 1, 2,
       1, 1, 1, 5, 3, 3, 1, 3, 3, 2, 5, 1, 4, 4, 1, 2, 4, 1, 2, 4, 2, 1, 2,
       1, 2, 1, 2, 2, 3, 2, 2, 2, 1, 2 >>,
     outcome_is_alive |->
    << 1, 2, 1, 1, 1, 1, 1, 1, 1, 1, 1, 1, 1, 1, 1, 1, 1, 1, 1, 1, 1, 1, 1,
       2, 1, 1, 1, 1, 1, 1, 1, 2, 1, 2, 1, 1, 1, 1, 1, 1, 1, 1, 1, 1, 1, 1,
       1, 1, 1, 1, 2, 1, 1, 1, 1, 1, 1, 1, 1, 2, 1, 1, 1, 1, 2, 1, 1, 1, 1,
       1, 1, 1, 1, 1, 1, 1, 1, 1, 1, 1, 2, 1, 1, 1, 1, 1, 1, 1, 2, 1, 1, 1,
       1, 1, 1, 1, 1, 1, 1, 1, 1, 1, 1, 1, 1, 1, 1, 1, 1, 1, 1, 1, 1, 1, 2,
       1, 1, 1, 2, 1, 1, 1, 1, 1, 1, 2, 1, 1, 1, 1, 1, 1, 1, 1, 1, 1, 1, 1,
       1, 1, 1, 2, 1, 1, 1, 1, 1, 1, 1, 1, 1, 1, 1, 1, 1, 1, 1, 1, 1, 1, 1,
       1, 1, 1, 1, 1, 1, 1, 1, 1, 1, 1, 1, 1, 1, 1, 1, 1, 1, 1, 1, 2, 1, 1,
       1, 1, 1, 1, 1, 1, 1, 1, 1, 2, 1, 1, 2, 1, 2, 1, 1, 1, 1, 1, 2, 1, 1,
       1, 1, 1, 1, 1, 1, 1, 1, 1, 1, 1, 1, 1, 1, 1, 1, 1, 1, 1, 1, 1, 1, 1,
       1, 1, 1, 1, 1, 1, 1, 1, 1, 2, 1, 1, 2, 1, 2, 1, 1, 1, 1, 1, 1, 1, 1,
       1, 1, 2, 1, 1, 1, 1, 1, 1, 1, 1, 1, 1, 1, 1, 1, 1, 1, 1, 1, 1, 1, 1,
       1, 1, 1, 1, 1, 1, 1, 1, 1, 1, 1, 1, 1, 1, 1, 1, 1, 1, 1, 1, 1, 1, 1,
       1, 1, 1, 2, 1, 1, 1, 1, 1, 1, 1, 1, 1, 1, 1, 1, 1, 1, 1, 1, 2, 1, 1,
       1, 1, 1, 1, 1, 1, 1, 1, 1, 1, 1, 1, 1, 1, 1, 1, 1, 1, 1, 1, 1, 2, 1,
       2, 2, 1, 1, 1, 1, 1, 1, 1, 2, 1, 1, 1, 1, 1, 1, 1, 1, 2, 1, 1, 1, 1,
       1, 2, 1, 1, 1, 1, 1, 1, 1, 1, 1, 1, 1, 1, 1, 1, 1, 1, 1, 1, 1, 1, 2,
       1, 2, 1, 1, 1, 1, 2, 1, 1, 1, 2, 1, 1, 1, 1, 1, 1, 1, 1, 1, 2, 1, 1,
       1, 1, 1, 1, 1, 2, 1, 2, 1, 1, 1, 1, 1, 1, 1, 1, 1, 1, 1, 2, 1, 1, 1,
       1, 1, 2, 1, 1, 1, 1, 1, 1, 1, 1, 1, 1, 2, 1, 1, 1, 1, 1, 1, 1, 1, 1,
       1, 1, 1, 1, 1, 2, 1, 1, 1, 2, 1, 1, 1, 1, 1, 1, 1, 1, 1, 1, 1, 1, 2,
       1, 1, 1, 1, 2, 1, 1, 1, 1, 1, 1, 1, 1, 1, 1, 1, 1, 1, 1, 2, 1, 1, 1,
       1, 1, 1, 1, 2, 1, 1, 1, 1, 1, 1, 2, 1, 1, 1, 1, 1, 1, 1, 1, 1, 1, 1,
       1, 1, 2, 1, 1, 1, 1, 1, 1, 1, 2, 2, 1, 1, 1, 1, 1, 1, 1, 1, 2, 1, 1,
       1, 1, 1, 1, 2, 1, 1, 1, 1, 1, 2, 1, 1, 1, 1, 1, 1, 1, 1, 1, 1, 1, 1,
       1, 1, 1, 1, 2, 2, 1, 2, 1, 1, 1, 1, 1, 1, 1, 1, 1, 2, 1, 1, 1, 1, 1,
       1, 1, 1, 1, 1, 1, 1, 1, 1, 1, 2, 2, 1, 1, 1, 1, 1, 1, 2, 1, 2, 1, 1,
       1, 1, 1, 1, 1, 1, 1, 1, 2, 1, 1, 1, 1, 1, 1, 1, 1, 1, 1, 1, 1, 1, 1,
       1, 1, 1, 1, 1, 1, 2, 1, 1, 1, 1, 1, 1, 1, 1, 1, 1, 1, 1, 2, 1, 2, 2,
       1, 1, 1, 1, 1, 1, 1, 1, 2, 1, 1, 1, 2, 1, 1, 1, 1, 1, 2, 1, 1, 1, 1,
       1, 1, 1, 1, 1, 1, 1, 1, 1, 2, 1, 1, 1, 1, 1, 1, 1, 2, 1, 1, 1, 1, 1,
       1, 1, 1, 1, 1, 1, 1, 1, 1, 1, 1, 2, 1, 1, 1, 1, 1, 1, 1, 1, 1, 1, 1,
       1, 1, 1, 1, 1, 1, 1, 1, 1, 1, 1, 1, 1, 1, 1, 1, 1, 1, 1, 2, 1, 1, 1,
       1, 1, 1, 1, 1, 1, 1, 1, 1, 1, 1, 2, 1, 1, 1, 1, 1, 1, 1, 1, 1, 1, 1,
       1, 1, 2, 1, 1, 1, 1, 1, 2, 1, 1, 1, 1, 1, 1, 1, 1, 1, 1, 2, 1, 1, 1,
       1, 2, 1, 1, 1, 1, 1, 1, 1, 1, 1, 2, 1, 1, 1, 1, 1, 1, 2, 1, 1, 1, 1,
       1, 1, 1, 1, 1, 1, 1, 1, 1, 1, 1, 1, 1, 2, 1, 1, 1, 1, 1, 1, 1, 1, 2,
       1, 1, 1, 1, 1, 1, 1, 1, 1, 1, 1, 1, 1, 1, 1, 1, 1, 2, 1, 1, 1, 1, 1,
       1, 1, 1, 1, 2, 1, 1, 1, 1, 1, 1, 1, 1, 1, 1, 1, 1, 1, 1, 1, 2, 1, 1,
       1, 1, 1, 2, 1, 1, 1, 1, 1, 2, 1, 1, 1, 1, 1, 1, 1, 1, 1, 1, 1, 1, 1,
       1, 1, 1, 1, 1, 1, 1, 1, 1, 1, 1, 1, 1, 1, 1, 1, 1, 1, 1, 1, 1, 1, 1,
       1, 1, 2, 1, 1, 1, 1, 1, 1, 1, 1, 1, 1, 1, 2, 1, 1, 1, 1, 1, 1, 1, 1,
       1, 1, 1, 1, 1, 1, 1, 1, 2, 1, 1, 1, 1, 1, 1, 1, 1, 1, 2, 1, 1, 1, 1,
       1, 1, 1, 1, 1, 1, 1, 1, 1, 1, 1 >>]

\* pd.date_range(start="2020-01-01", end="2023-12-31", periods=n)[i], as a
\* day number: the n dates are evenly spaced over the 1460 days between.
date_range(i, n) == IF n = 1 THEN -366 ELSE -366 + ((i - 1) * 1460) \div (n - 1)

\* _generate_dummy_data: Animal Type, Intake Type, Outcome Type, Intake Date
\* and Outcome Date of row i, and the outcome_is_alive the single file adds.
_generate_dummy_data(i, n) ==
    LET dates == date_range(i, n)
    IN  [AnimalType  |-> <<"DOG", "CAT", "BIRD", "OTHER">>[seed42.AnimalType[i]],
         IntakeType  |-> <<"STRAY", "OWNER SURRENDER", "PUBLIC ASSIST",
                           "SEIZED">>[seed42.IntakeType[i]],
         OutcomeType |-> <<"ADOPTION", "TRANSFER", "RETURN TO OWNER",
                           "EUTHANASIA", "DIED">>[seed42.OutcomeType[i]],
         IntakeDate  |-> dates,
         OutcomeDate |-> dates + seed42.randint[i],
         outcome_is_alive |-> <<"True", "False">>[seed42.outcome_is_alive[i]]]

\* The table of a run without the file; <<>> is the modular loader's frame.
load_dummy(v) ==
    IF v = "modular" THEN <<>>
    ELSE [i \in 1 .. DummyN |->
            LET r == _generate_dummy_data(i, DummyN)
            IN  Row(i - 1, r.AnimalType, r.IntakeType, r.OutcomeType,
                    r.IntakeDate, r.OutcomeDate, r.OutcomeDate - r.IntakeDate,
                    IF v = "single" THEN r.outcome_is_alive
                    ELSE IF r.OutcomeType \in LIVE_OUTCOMES THEN "True" ELSE "False")]

\* The frame has the columns update_ui reads; pd.DataFrame() has none.
has_columns(v, raw) == ~(v = "modular" /\ raw = FileNotFound)

load_data(v, raw) ==
    IF raw = FileNotFound THEN load_dummy(v)
    ELSE
    [i \in 1 .. Len(raw.rows) |->
        CASE v = "copy"    -> load_row_copy(i - 1, raw.rows[i], raw.hasAlive, raw.hasDuration)
          [] v = "modular" -> load_row_modular(i - 1, raw.rows[i], raw.hasAlive, raw.hasDuration)
          [] OTHER         -> load_row_single(i - 1, raw.rows[i], raw.hasAlive, raw.hasDuration)]

(***************************************************************************)
(* Selection state: the five dcc.Store components, keyed as the            *)
(* `selections` dict of update_ui keys them.                               *)
(***************************************************************************)
Dims == {"species", "intake", "year", "status", "outcome"}

Sel(sp, it, yr, st, oc) ==
    [species |-> sp, intake |-> it, year |-> yr, status |-> st, outcome |-> oc]

\* layout.py: every dcc.Store is created with data="All".
create_layout == Sel(All, All, All, All, All)

\* return "All", "All", "All", "All", "All"
AllFive == Sel(All, All, All, All, All)

\* The chart whose clickData feeds each dimension.
ChartOf ==
    [d \in Dims |->
        CASE d = "species" -> "fig_species"
          [] d = "intake"  -> "fig_intake_type"
          [] d = "year"    -> "fig_trend"
          [] d = "status"  -> "fig_outcomes_percentage"
          [] OTHER         -> "fig_outcome_type"]

Charts == {ChartOf[d] : d \in Dims}

DimOf(chart) == CHOOSE d \in Dims : ChartOf[d] = chart

(***************************************************************************)
(* clickData of the triggering chart: None, a point that carries the key   *)
(* the callback reads (label / y / x) with a value, or a point without it. *)
(***************************************************************************)
NoClick == [points |-> FALSE, key |-> FALSE, val |-> None]

Point(v) == [points |-> TRUE, key |-> TRUE, val |-> v]

BarePoint == [points |-> TRUE, key |-> FALSE, val |-> None]

\* Values a click can carry, per dimension.  The trend chart of the copy
\* variant plots years as strings, the other two as numbers.
ClickValues ==
    [d \in Dims |->
        CASE d = "species" -> {Str("DOG"), Str("CAT")}
          [] d = "intake"  -> {Str("STRAY")}
          [] d = "year"    -> {Int_(2021), Str("2021")}
          [] d = "status"  -> {Str("Live"), Str("Non-Live")}
          [] OTHER         -> {Str("ADOPTION")}]

ClickData(d) == {NoClick, BarePoint} \cup {Point(v) : v \in ClickValues[d]}

\* clickData of every chart before any click: the prop is None.
NoClickData == [d \in Dims |-> NoClick]

\* The three callbacks of the single file.
Callbacks == {"update_filters", "update_ui", "reset_click_data"}

\* No requested callback has a predecessor.
NoPredecessors == [cb \in Callbacks |-> {}]

\* toggle without the clearing branch.
toggle_never_clears(new_val, current_val) == new_val

\* def toggle(new_val, current_val)
toggle(new_val, current_val) ==
    IF new_val = current_val THEN All ELSE new_val

Return(out) == [out |-> out, exc |-> ""]

Raise(cur, exc) == [out |-> cur, exc |-> exc]

\* copy/app.py update_filters: the value is read with .get(), a missing one
\* returns the current state; the year is normalised with int() when possible.
update_filters_copy(triggered, trigger_id, c, cur) ==
    IF ~triggered THEN Return(cur)
    ELSE IF trigger_id = "btn-reset" THEN Return(AllFive)
    ELSE IF trigger_id \in Charts /\ c.points THEN
        LET d == DimOf(trigger_id)
            val == IF c.key THEN c.val ELSE None
            norm == IF d = "year" /\ int(val).ok THEN Int_(int(val).n) ELSE val
        IN  IF val = None THEN Return(cur)
            ELSE Return([cur EXCEPT ![d] = toggle(norm, cur[d])])
    ELSE Return(cur)

\* modular/app.py and the single file: the value is read with [...].
update_filters_modular(triggered, trigger_id, c, cur) ==
    IF ~triggered THEN Return(AllFive)
    ELSE IF trigger_id = "btn-reset" THEN Return(AllFive)
    ELSE IF trigger_id \in Charts /\ c.points THEN
        LET d == DimOf(trigger_id)
        IN  IF ~c.key THEN Raise(cur, "KeyError")
            ELSE Return([cur EXCEPT ![d] = toggle(c.val, cur[d])])
    ELSE Return(cur)

\* update_filters whose click branch returns "All" for the other stores.
update_filters_click_resets_others(v, triggered, trigger_id, c, cur) ==
    IF triggered /\ trigger_id \in Charts /\ c.points /\ c.key
    THEN LET d == DimOf(trigger_id)
         IN  Return([AllFive EXCEPT ![d] = toggle(c.val, cur[d])])
    ELSE IF v = "copy" THEN update_filters_copy(triggered, trigger_id, c, cur)
    ELSE update_filters_modular(triggered, trigger_id, c, cur)

\* update_filters whose last return is the "All" x 5 of the first one: a
\* chart trigger whose clickData is None resets the stores.
update_filters_null_click_resets(v, triggered, trigger_id, c, cur) ==
    IF triggered /\ trigger_id \in Charts /\ ~c.points THEN Return(AllFive)
    ELSE IF v = "copy" THEN update_filters_copy(triggered, trigger_id, c, cur)
    ELSE update_filters_modular(triggered, trigger_id, c, cur)

\* update_filters whose reset branch returns the current stores.
update_filters_reset_keeps(v, triggered, trigger_id, c, cur) ==
    IF triggered /\ trigger_id = "btn-reset" THEN Return(cur)
    ELSE IF v = "copy" THEN update_filters_copy(triggered, trigger_id, c, cur)
    ELSE update_filters_modular(triggered, trigger_id, c, cur)

update_filters(v, triggered, trigger_id, c, cur) ==
    IF v = "copy" THEN update_filters_copy(triggered, trigger_id, c, cur)
    ELSE update_filters_modular(triggered, trigger_id, c, cur)

(***************************************************************************)
(* Filter engine.  A DataFrame is the sequence of its rows; boolean        *)
(* indexing keeps the rows whose mask is True, in order.  A comparison     *)
(* with NA / NaN is False.                                                 *)
(***************************************************************************)
\* d[col] == sel for a text column.
text_eq(cell, sel) == sel.t = "str" /\ cell # NA /\ cell = sel.s

\* d["Intake Year"] == y
year_eq(cell, y) == cell # NaT /\ cell = y

\* d["outcome_is_alive"] == (True if sel_status == "Live" else False)
alive_eq(cell, sel) == cell = (IF sel = Str("Live") THEN "True" ELSE "False")

\* The species step without the ignore_dims test.
filter_species_not_ignorable(d, selections, ignore_dims) ==
    IF selections.species # All
    THEN SelectSeq(d, LAMBDA r : text_eq(r.AnimalType, selections.species))
    ELSE d

\* The species step comparing the intake type column.
filter_species_on_intake_column(d, selections, ignore_dims) ==
    IF "species" \notin ignore_dims /\ selections.species # All
    THEN SelectSeq(d, LAMBDA r : text_eq(r.IntakeType, selections.species))
    ELSE d

\* if "species" not in ignore_dims and sel_species != "All": ...
filter_species(d, selections, ignore_dims) ==
    IF "species" \notin ignore_dims /\ selections.species # All
    THEN SelectSeq(d, LAMBDA r : text_eq(r.AnimalType, selections.species))
    ELSE d

filter_intake(d, selections, ignore_dims) ==
    IF "intake" \notin ignore_dims /\ selections.intake # All
    THEN SelectSeq(d, LAMBDA r : text_eq(r.IntakeType, selections.intake))
    ELSE d

\* The year step comparing the outcome year.
filter_year_by_outcome(d, selections, ignore_dims) ==
    IF "year" \notin ignore_dims /\ selections.year # All
    THEN SelectSeq(d, LAMBDA r : year_eq(r.OutcomeYear, int(selections.year).n))
    ELSE d

\* Reached only with a year that int() accepts.
filter_year(d, selections, ignore_dims) ==
    IF "year" \notin ignore_dims /\ selections.year # All
    THEN SelectSeq(d, LAMBDA r : year_eq(r.IntakeYear, int(selections.year).n))
    ELSE d

\* The status step with its result dropped (d[...] not assigned back).
filter_status_dropped(d, selections, ignore_dims) == d

filter_status(d, selections, ignore_dims) ==
    IF "status" \notin ignore_dims /\ selections.status # All
    THEN SelectSeq(d, LAMBDA r : alive_eq(r.outcome_is_alive, selections.status))
    ELSE d

\* The outcome step with its ignore_dims test inverted.
filter_outcome_when_ignored(d, selections, ignore_dims) ==
    IF "outcome" \in ignore_dims /\ selections.outcome # All
    THEN SelectSeq(d, LAMBDA r : text_eq(r.OutcomeType, selections.outcome))
    ELSE d

filter_outcome(d, selections, ignore_dims) ==
    IF "outcome" \notin ignore_dims /\ selections.outcome # All
    THEN SelectSeq(d, LAMBDA r : text_eq(r.OutcomeType, selections.outcome))
    ELSE d

\* True when the year step would call int() on a value it rejects.
year_rejected(selections, ignore_dims) ==
    "year" \notin ignore_dims /\ selections.year # All /\ ~int(selections.year).ok

\* copy/figures.py apply_filters: a year that int() rejects filters nothing
\* (try / except: pass).
apply_filters(d0, selections, ignore_dims) ==
    LET d1 == filter_species(d0, selections, ignore_dims)
        d2 == filter_intake(d1, selections, ignore_dims)
        d3 == IF year_rejected(selections, ignore_dims) THEN d2
              ELSE filter_year(d2, selections, ignore_dims)
        d4 == filter_status(d3, selections, ignore_dims)
        d5 == filter_outcome(d4, selections, ignore_dims)
    IN  Return(d5)

\* update_ui.get_filtered_df of modular/app.py and of the single file: the
\* same five steps on a copy of df; int(sel_year) is not guarded.
get_filtered_df(d0, selections, ignore_dims) ==
    LET d1 == filter_species(d0, selections, ignore_dims)
        d2 == filter_intake(d1, selections, ignore_dims)
    IN  IF year_rejected(selections, ignore_dims)
        THEN Raise(<<>>, int(selections.year).exc)
        ELSE LET d3 == filter_year(d2, selections, ignore_dims)
                 d4 == filter_status(d3, selections, ignore_dims)
                 d5 == filter_outcome(d4, selections, ignore_dims)
             IN  Return(d5)

filter(v, d0, selections, ignore_dims) ==
    IF v = "copy" THEN apply_filters(d0, selections, ignore_dims)
    ELSE get_filtered_df(d0, selections, ignore_dims)

(***************************************************************************)
(* KPIs.  Counts are integers; the two figures printed with one decimal    *)
(* (f"{x:.1f}") are kept as Fixed1 texts.                                  *)
(***************************************************************************)
RECURSIVE SumDuration(_)
SumDuration(d) ==
    IF d = <<>> THEN 0
    ELSE IF Len(d) = 1 THEN d[1].intake_duration
    ELSE LET half == Len(d) \div 2
         IN  SumDuration(SubSeq(d, 1, half)) + SumDuration(SubSeq(d, half + 1, Len(d)))

(***************************************************************************)
(* f"{x:.1f}" of a float x.  a / b of two whole numbers is the binary      *)
(* double nearest to the quotient, and the text is the decimal with one    *)
(* digit nearest to that double, an exact tie going to the even digit.     *)
(* The text is kept as its sign and its tenths: "29.1" is Fixed1(FALSE,    *)
(* 291), "-0.0" is Fixed1(TRUE, 0).                                        *)
(*                                                                         *)
(* A quotient that is not halfway between two tenths is farther from the   *)
(* halfway point than the double is from the quotient, so the digit is     *)
(* that of the quotient.  A quotient halfway between two tenths is t / 20  *)
(* with t odd: the digit goes with the side of t / 20 the double is on,    *)
(* found from the remainder the division leaves in the 53-bit significand  *)
(* (units of 2^(e - 52) for a double in [2^e, 2^(e + 1))).                 *)
(***************************************************************************)
Fixed1(neg, tenths) == [neg |-> neg, tenths |-> tenths]

\* f"{0:.1f}" and the literal "0.0".
Zero1f == Fixed1(FALSE, 0)

\* f"{float('nan'):.1f}" is "nan": no tenths of the model's domain equals it.
NaN1f == Fixed1(FALSE, NaT)

RECURSIVE Pow2(_)
Pow2(j) == IF j = 0 THEN 1 ELSE 2 * Pow2(j - 1)

\* 2^j modulo m.
RECURSIVE Pow2Mod(_, _)
Pow2Mod(j, m) == IF j = 0 THEN 1 % m ELSE (2 * Pow2Mod(j - 1, m)) % m

\* The e with 2^e <= n / d < 2^(e + 1), n and d positive: the exponent of
\* the double nearest to n / d.
RECURSIVE float_exponent(_, _)
float_exponent(n, d) ==
    IF n >= 2 * d THEN float_exponent(n, 2 * d) + 1
    ELSE IF n < d THEN float_exponent(2 * n, d) - 1
    ELSE 0

\* The tenths printed for a double just above (side > 0), just below
\* (side < 0) or exactly at (side = 0) the point halfway between q and q + 1
\* tenths.
halfway_digit(q, side) ==
    IF side > 0 THEN q + 1
    ELSE IF side < 0 THEN q
    ELSE IF q % 2 = 0 THEN q ELSE q + 1

\* float(t) / 20, t odd: the side of t / 20 the double is on.  The
\* significand is t * 2^(50 - e) / 5 rounded to a whole number.
truediv_side(t) ==
    LET rho == ((t % 5) * Pow2Mod(50 - float_exponent(t, 20), 5)) % 5
    IN  IF rho = 0 THEN 0 ELSE IF rho <= 2 THEN -1 ELSE 1

\* f"{num / den:.1f}", den > 0.
Format1f(num, den) ==
    LET n == IF num < 0 THEN -num ELSE num
        a == 10 * n
        q == a \div den
        r == a % den
        tenths == IF 2 * r < den THEN q
                  ELSE IF 2 * r > den THEN q + 1
                  ELSE halfway_digit(q, truediv_side(2 * q + 1))
    IN  Fixed1(num < 0, tenths)

\* float(t) / 2000 * 100, t odd: the side of t / 20 the product is on.  The
\* quotient is rounded first (its error is delta1 / 125 units of its own
\* exponent e1), then the product is rounded at the exponent e2 of t / 20,
\* where it lies N / D units above the significand G below t / 20.  Below
\* the power of two 1/4 (t = 5) the units are half as large.
truediv_mul_side(t) ==
    LET e1     == float_exponent(t, 2000)
        e2     == float_exponent(t, 20)
        rho1   == ((t % 125) * Pow2Mod(48 - e1, 125)) % 125
        delta1 == IF rho1 <= 62 THEN -rho1 ELSE 125 - rho1
        rho2   == ((t % 5) * Pow2Mod(50 - e2, 5)) % 5
        fine   == t = 5 /\ delta1 < 0
        N      == (IF fine THEN 2 ELSE 1) * (rho2 * Pow2(e2 - e1) + 4 * delta1)
        D      == 5 * Pow2(e2 - e1)
        G_odd  == ~fine /\ ((t % 10) * Pow2Mod(50 - e2, 10)) % 10 >= 5
        J0     == N \div D
        R      == N % D
        odd    == (J0 % 2 # 0) # G_odd
        J      == IF 2 * R > D \/ (2 * R = D /\ odd) THEN J0 + 1 ELSE J0
        c      == 5 * J - (IF fine THEN 2 ELSE 1) * rho2
    IN  IF c > 0 THEN 1 ELSE IF c < 0 THEN -1 ELSE 0

\* f"{live / outcomes * 100:.1f}", live >= 0 and outcomes > 0.
Format1f_pct(live, outcomes) ==
    LET a == 1000 * live
        q == a \div outcomes
        r == a % outcomes
        tenths == IF 2 * r < outcomes THEN q
                  ELSE IF 2 * r > outcomes THEN q + 1
                  ELSE halfway_digit(q, truediv_mul_side(2 * q + 1))
    IN  Fixed1(FALSE, tenths)

KPI(intakes, outcomes, los, adoptions, lrr) ==
    [intakes |-> intakes, outcomes |-> outcomes, los |-> los,
     adoptions |-> adoptions, lrr |-> lrr]

\* get_kpis taking the adoptions for the live outcomes.
get_kpis_live_is_adoption(d) ==
    IF d = <<>> THEN KPI(0, 0, Zero1f, 0, Zero1f)
    ELSE
        LET total_intakes  == Len(d)
            total_outcomes == Len(SelectSeq(d, LAMBDA r : r.OutcomeDate # NaT))
            total_adoptions == Len(SelectSeq(d, LAMBDA r : r.OutcomeType = "ADOPTION"))
            total_live     == total_adoptions
            lrr == IF total_outcomes > 0
                     THEN Format1f_pct(total_live, total_outcomes) ELSE Zero1f
        IN  KPI(total_intakes, total_outcomes,
                Format1f(SumDuration(d), total_intakes), total_adoptions, lrr)

\* get_kpis counting every row as an outcome.
get_kpis_outcomes_all_rows(d) ==
    IF d = <<>> THEN KPI(0, 0, Zero1f, 0, Zero1f)
    ELSE
        LET total_intakes  == Len(d)
            total_outcomes == Len(d)
            total_adoptions == Len(SelectSeq(d, LAMBDA r : r.OutcomeType = "ADOPTION"))
            total_live     == Len(SelectSeq(d, LAMBDA r : r.outcome_is_alive = "True"))
            lrr == IF total_outcomes > 0
                     THEN Format1f_pct(total_live, total_outcomes) ELSE Zero1f
        IN  KPI(total_intakes, total_outcomes,
                Format1f(SumDuration(d), total_intakes), total_adoptions, lrr)

\* copy/figures.py get_kpis.
get_kpis(d) ==
    IF d = <<>> THEN KPI(0, 0, Zero1f, 0, Zero1f)
    ELSE
        LET total_intakes  == Len(d)
            total_outcomes == Len(SelectSeq(d, LAMBDA r : r.OutcomeDate # NaT))
            total_adoptions == Len(SelectSeq(d, LAMBDA r : r.OutcomeType = "ADOPTION"))
            total_live     == Len(SelectSeq(d, LAMBDA r : r.outcome_is_alive = "True"))
            lrr == IF total_outcomes > 0
                     THEN Format1f_pct(total_live, total_outcomes) ELSE Zero1f
        IN  KPI(total_intakes, total_outcomes,
                Format1f(SumDuration(d), total_intakes), total_adoptions, lrr)

\* The inline KPIs with the mean taken of an empty frame too (it is NaN).
update_ui_kpis_unguarded(kpi_df) ==
    LET t_intakes   == Len(kpi_df)
        t_outcomes  == Len(SelectSeq(kpi_df, LAMBDA r : r.OutcomeDate # NaT))
        avg_los     == IF kpi_df # <<>> THEN Format1f(SumDuration(kpi_df), t_intakes)
                       ELSE NaN1f
        t_adoptions == Len(SelectSeq(kpi_df, LAMBDA r : r.OutcomeType = "ADOPTION"))
        t_live      == Len(SelectSeq(kpi_df, LAMBDA r : r.outcome_is_alive = "True"))
        lrr         == IF t_outcomes > 0 THEN Format1f_pct(t_live, t_outcomes) ELSE Zero1f
    IN  KPI(t_intakes, t_outcomes, avg_los, t_adoptions, lrr)

\* update_ui of modular/app.py (lines 127-133) and of the single file
\* (lines 255-261): the KPIs computed inline, with no early return for an
\* empty frame.  Series.sum() skips the NaN cells of outcome_is_alive.
update_ui_kpis(kpi_df) ==
    LET t_intakes   == Len(kpi_df)
        t_outcomes  == Len(SelectSeq(kpi_df, LAMBDA r : r.OutcomeDate # NaT))
        avg_los     == IF kpi_df # <<>> THEN Format1f(SumDuration(kpi_df), t_intakes)
                       ELSE Zero1f
        t_adoptions == Len(SelectSeq(kpi_df, LAMBDA r : r.OutcomeType = "ADOPTION"))
        t_live      == Len(SelectSeq(kpi_df, LAMBDA r : r.outcome_is_alive = "True"))
        lrr         == IF t_outcomes > 0 THEN Format1f_pct(t_live, t_outcomes) ELSE Zero1f
    IN  KPI(t_intakes, t_outcomes, avg_los, t_adoptions, lrr)

\* The KPI record of variant v for the frame kpi_df.
kpis(v, kpi_df) ==
    IF v = "copy" THEN get_kpis(kpi_df) ELSE update_ui_kpis(kpi_df)

(***************************************************************************)
(* Grouped counts of the charts.  Series.value_counts() counts the cells   *)
(* of a column by value, leaves out the NA / NaN cells, and orders the     *)
(* values by falling count, equal counts in order of first appearance.     *)
(***************************************************************************)
\* The column each grouped chart counts.
column(r, dim) ==
    CASE dim = "species" -> r.AnimalType
      [] dim = "intake"  -> r.IntakeType
      [] dim = "outcome" -> r.OutcomeType
      [] dim = "status"  -> r.outcome_is_alive

\* The non-NA values of a column in order of first appearance.
unique(d, dim) ==
    LET cell(i) == column(d[i], dim)
        first == SelectSeq([i \in 1 .. Len(d) |-> i],
                           LAMBDA i : /\ cell(i) # NA
                                      /\ \A j \in 1 .. i - 1 : cell(j) # cell(i))
    IN  [k \in 1 .. Len(first) |-> cell(first[k])]

\* counts with entry e put after the entries whose count is not smaller.
RECURSIVE insert_by_count(_, _)
insert_by_count(counts, e) ==
    IF counts = <<>> THEN <<e>>
    ELSE IF Head(counts).Count >= e.Count
         THEN <<Head(counts)>> \o insert_by_count(Tail(counts), e)
         ELSE <<e>> \o counts

RECURSIVE sort_values(_)
sort_values(counts) ==
    IF counts = <<>> THEN <<>>
    ELSE insert_by_count(sort_values(SubSeq(counts, 1, Len(counts) - 1)),
                         counts[Len(counts)])

\* d[col].value_counts().reset_index(), columns named (value, Count).
value_counts(d, dim) ==
    LET keys == unique(d, dim)
    IN  sort_values([i \in 1 .. Len(keys) |->
            [value |-> keys[i],
             Count |-> Len(SelectSeq(d, LAMBDA r : column(r, dim) = keys[i]))]])

(***************************************************************************)
(* Trend chart: the records counted by intake year and by outcome year.    *)
(* groupby leaves out the rows whose key is NaN and orders the groups by   *)
(* key.                                                                    *)
(***************************************************************************)
year_of(r, col) == IF col = "Intake Year" THEN r.IntakeYear ELSE r.OutcomeYear

\* A set of years in increasing order.
RECURSIVE sorted(_)
sorted(years) ==
    IF years = {} THEN <<>>
    ELSE LET least == CHOOSE y \in years : \A z \in years : y <= z
         IN  <<least>> \o sorted(years \ {least})

\* groupby counting the rows without a year under the year 2021.
groupby_size_null_as_2021(d, col) ==
    LET year(r) == IF year_of(r, col) = NaT THEN 2021 ELSE year_of(r, col)
        keys == sorted({year(d[i]) : i \in 1 .. Len(d)})
    IN  [i \in 1 .. Len(keys) |->
            [Year  |-> keys[i],
             Count |-> Len(SelectSeq(d, LAMBDA r : year(r) = keys[i]))]]

\* d.groupby(col).size().reset_index(name="Count")
groupby_size(d, col) ==
    LET keys == sorted({year_of(d[i], col) : i \in 1 .. Len(d)} \ {NaT})
    IN  [i \in 1 .. Len(keys) |->
            [Year  |-> keys[i],
             Count |-> Len(SelectSeq(d, LAMBDA r : year_of(r, col) = keys[i]))]]

\* The x of a point: the copy variant plots astype(int).astype(str), the
\* other two the year itself.
trend_x(v, year) == IF v = "copy" THEN Str(str(Int_(year))) ELSE Int_(year)

\* One trace of the trend chart.
trace(v, d, col) ==
    LET g == groupby_size(d, col)
    IN  [i \in 1 .. Len(g) |-> [x |-> trend_x(v, g[i].Year), y |-> g[i].Count]]

\* create_trend_chart: "No Data" (no trace) for an empty frame, else the
\* Outcome and the Intake trace.
create_trend_chart(v, d) ==
    IF d = <<>> THEN [nodata |-> TRUE, Outcome |-> <<>>, Intake |-> <<>>]
    ELSE [nodata |-> FALSE, Outcome |-> trace(v, d, "Outcome Year"),
          Intake |-> trace(v, d, "Intake Year")]

(***************************************************************************)
(* update_ui: the KPI cards from the fully filtered table, each chart from *)
(* the table filtered by the other charts' selections.                     *)
(***************************************************************************)
NoUI ==
    [sel |-> create_layout, drawn |-> FALSE, kpi |-> KPI(0, 0, Zero1f, 0, Zero1f),
     d_species |-> <<>>, d_intake |-> <<>>, d_trend |-> <<>>,
     d_status |-> <<>>, d_outcome |-> <<>>]

\* Every chart filtered like the KPI cards (no self-exclusion).
ignore_dims_none(output) == {}

\* The KPI cards filtered like the species chart.
ignore_dims_kpi_as_species(output) ==
    IF output \in {"kpi-container", "fig_species"} THEN {"species"}
    ELSE {DimOf(output)}

\* The ignore_dims each output of update_ui is computed with.
ignore_dims_of(output) ==
    CASE output = "kpi-container"           -> {}
      [] output = "fig_species"             -> {"species"}
      [] output = "fig_intake_type"         -> {"intake"}
      [] output = "fig_trend"               -> {"year"}
      [] output = "fig_outcomes_percentage" -> {"status"}
      [] output = "fig_outcome_type"        -> {"outcome"}

update_ui(v, d0, selections) ==
    LET kpi_df    == filter(v, d0, selections, ignore_dims_of("kpi-container"))
        d_species == filter(v, d0, selections, ignore_dims_of("fig_species"))
        d_intake  == filter(v, d0, selections, ignore_dims_of("fig_intake_type"))
        d_trend   == filter(v, d0, selections, ignore_dims_of("fig_trend"))
        d_status  == filter(v, d0, selections, ignore_dims_of("fig_outcomes_percentage"))
        d_outcome == filter(v, d0, selections, ignore_dims_of("fig_outcome_type"))
        all == <<kpi_df, d_species, d_intake, d_trend, d_status, d_outcome>>
    IN  IF \E i \in 1 .. Len(all) : all[i].exc # ""
        THEN Raise(NoUI, (CHOOSE e \in {all[i].exc : i \in 1 .. Len(all)} : e # ""))
        ELSE Return([sel |-> selections, drawn |-> TRUE, kpi |-> kpis(v, kpi_df.out),
                     d_species |-> d_species.out, d_intake |-> d_intake.out,
                     d_trend |-> d_trend.out, d_status |-> d_status.out,
                     d_outcome |-> d_outcome.out])

(***************************************************************************)
(* The callback chain.  Dash runs the callbacks of a page load first       *)
(* (update_filters only where prevent_initial_call is not set), then one   *)
(* user interaction at a time: update_filters writes the stores, which     *)
(* schedules update_ui.  A callback that raises writes none of its outputs.*)
(***************************************************************************)
Triggers == {"btn-reset"} \cup Charts

Init ==
    /\ variant \in Variants
    /\ \E raw \in RawTables :
          /\ (variant = "single" => raw.hasAlive)
          /\ csv = raw
          /\ df = load_data(variant, raw)
    /\ store = create_layout
    /\ ui = NoUI
    /\ pending = IF variant = "copy" THEN {"update_ui"}
                 ELSE {"update_filters", "update_ui"}
    /\ last = [trigger |-> "", c |-> NoClick, prev |-> create_layout]
    /\ err = ""
    /\ clickData = NoClickData
    /\ predecessors = NoPredecessors

\* Page load, modular and single: update_filters runs with nothing triggered.
InitialCall ==
    /\ "update_filters" \in pending
    /\ LET r == update_filters(variant, FALSE, "", NoClick, store)
       IN  /\ store' = r.out
           /\ err' = r.exc
    /\ pending' = {"update_ui"}
    /\ last' = [trigger |-> "", c |-> NoClick, prev |-> store]
    /\ UNCHANGED <<clickData, predecessors, variant, csv, df, ui>>

\* The RESET FILTERS button.
Reset ==
    /\ pending = {}
    /\ LET r == update_filters(variant, TRUE, "btn-reset", NoClick, store)
       IN  /\ store' = r.out
           /\ err' = r.exc
    /\ pending' = {"update_ui"}
    /\ last' = [trigger |-> "btn-reset", c |-> NoClick, prev |-> store]
    /\ UNCHANGED <<clickData, predecessors, variant, csv, df, ui>>

\* A change of one chart's clickData.
ChartClick ==
    /\ pending = {}
    /\ \E d \in Dims : \E c \in ClickData(d) :
          LET r == update_filters(variant, TRUE, ChartOf[d], c, store)
          IN  /\ store' = r.out
              /\ err' = r.exc
              /\ pending' = IF r.exc = "" THEN {"update_ui"} ELSE {}
              /\ last' = [trigger |-> ChartOf[d], c |-> c, prev |-> store]
    /\ UNCHANGED <<clickData, predecessors, variant, csv, df, ui>>

\* What update_ui returns or raises in the current state: kpi_df['Outcome
\* Date'] is a KeyError on a frame without columns.
update_ui_result ==
    IF has_columns(variant, csv) THEN update_ui(variant, df, store)
    ELSE Raise(NoUI, "KeyError")

\* update_ui filtering the module-level df in place (df = df[mask]).
UpdateUI_in_place ==
    /\ pending = {"update_ui"}
    /\ LET r == update_ui_result
       IN  /\ ui' = IF r.exc = "" THEN r.out ELSE ui
           /\ err' = r.exc
    /\ df' = filter(variant, df, store, {}).out
    /\ pending' = {}
    /\ UNCHANGED <<clickData, predecessors, variant, csv, store, last>>

\* update_ui, scheduled by a write to the stores.
UpdateUI ==
    /\ pending = {"update_ui"}
    /\ LET r == update_ui_result
       IN  /\ ui' = IF r.exc = "" THEN r.out ELSE ui
           /\ err' = r.exc
    /\ pending' = {}
    /\ UNCHANGED <<clickData, predecessors, variant, csv, df, store, last>>

Next == InitialCall \/ Reset \/ ChartClick \/ UpdateUI

Spec == Init /\ [][Next]_vars

(***************************************************************************)
(* Page load over every file made of some of the first MaxRows rows of     *)
(* RawPool, in their order: load_data runs at import, then the callbacks   *)
(* of the page load draw the unfiltered dashboard.                         *)
(***************************************************************************)
\* The rows of RawPool whose number is in K.
RECURSIVE rows_of(_, _)
rows_of(K, n) ==
    IF n = 0 THEN <<>>
    ELSE IF n \in K THEN Append(rows_of(K, n - 1), RawPool[n])
         ELSE rows_of(K, n - 1)

\* A file with records marked or typed as live outcomes whose outcome date
\* is malformed or missing, and one complete record.
OpenRows ==
    << Raw("DOG", "STRAY", "ADOPTION", "2021-03-01", "13/13/2021", "TRUE", 304),
       Raw("CAT", "STRAY", "TRANSFER", "2021-12-30", NA,           "TRUE", 0),
       Raw("DOG", "STRAY", "ADOPTION", "2021-03-01", "2021-12-30", "TRUE", 304) >>

AllTables ==
    { [hasAlive |-> h[1], hasDuration |-> h[2], rows |-> rows_of(K, FileRows)] :
        h \in Headers, K \in SUBSET (1 .. FileRows) }
    \cup { [hasAlive |-> h[1], hasDuration |-> h[2], rows |-> OpenRows] :
              h \in Headers }

LoadInit ==
    /\ variant \in Variants
    /\ \E raw \in AllTables :
          /\ (variant = "single" => raw.hasAlive)
          /\ csv = raw
          /\ df = load_data(variant, raw)
    /\ store = create_layout
    /\ ui = NoUI
    /\ pending = IF variant = "copy" THEN {"update_ui"}
                 ELSE {"update_filters", "update_ui"}
    /\ last = [trigger |-> "", c |-> NoClick, prev |-> create_layout]
    /\ err = ""
    /\ clickData = NoClickData
    /\ predecessors = NoPredecessors

LoadNext == InitialCall \/ UpdateUI

LoadSpec == LoadInit /\ [][LoadNext]_vars

(***************************************************************************)
(* The dashboard started without the file.                                 *)
(***************************************************************************)
MissingInit ==
    /\ variant \in Variants
    /\ csv = FileNotFound
    /\ df = load_data(variant, FileNotFound)
    /\ store = create_layout
    /\ ui = NoUI
    /\ pending = IF variant = "copy" THEN {"update_ui"}
                 ELSE {"update_filters", "update_ui"}
    /\ last = [trigger |-> "", c |-> NoClick, prev |-> create_layout]
    /\ err = ""
    /\ clickData = NoClickData
    /\ predecessors = NoPredecessors

MissingSpec == MissingInit /\ [][Next]_vars

(***************************************************************************)
(* The dashboard on a fixed file of five records, all with outcome dates:  *)
(* two DOG / ADOPTION taken in in 2021, one CAT / TRANSFER in 2021, one    *)
(* DOG / EUTHANASIA in 2022 (not live) and one CAT / ADOPTION in 2022.     *)
(***************************************************************************)
SampleRows ==
    << Raw("DOG", "STRAY",           "ADOPTION",   "2021-03-01", "2021-12-30", "TRUE",  304),
       Raw("DOG", "OWNER SURRENDER", "ADOPTION",   "2021-03-01", "2021-12-30", "TRUE",  304),
       Raw("CAT", "STRAY",           "TRANSFER",   "2021-12-30", "2022-01-04", "TRUE",  5),
       Raw("DOG", "STRAY",           "EUTHANASIA", "2022-01-04", "2022-07-01", "FALSE", 178),
       Raw("CAT", "STRAY",           "ADOPTION",   "2022-01-04", "2022-07-01", "TRUE",  178) >>

SampleTables ==
    { [hasAlive |-> TRUE, hasDuration |-> g, rows |-> SampleRows] : g \in BOOLEAN }

SampleInit ==
    /\ variant \in Variants
    /\ \E raw \in SampleTables :
          /\ csv = raw
          /\ df = load_data(variant, raw)
    /\ store = create_layout
    /\ ui = NoUI
    /\ pending = IF variant = "copy" THEN {"update_ui"}
                 ELSE {"update_filters", "update_ui"}
    /\ last = [trigger |-> "", c |-> NoClick, prev |-> create_layout]
    /\ err = ""
    /\ clickData = NoClickData
    /\ predecessors = NoPredecessors

SampleSpec == SampleInit /\ [][Next]_vars

(***************************************************************************)
(* The single file's callback chain, callback by callback.  A callback is  *)
(* requested when one of its Inputs is written, by the user or by a        *)
(* callback that returned; a requested callback carries the callbacks that *)
(* ran before it in its chain.  The decorators make update_filters and     *)
(* reset_click_data listen to each other's outputs.  Whether a callback    *)
(* is run again in a chain it already ran in is decided by the framework's *)
(* dispatcher, not by this program: both outcomes are taken, at every      *)
(* write.  A click writes the chart's clickData only when the value        *)
(* differs from the one the prop holds.  The user clicks when no callback  *)
(* is requested.                                                           *)
(***************************************************************************)
\* The callbacks that have an Output of cb among their Inputs.
Listeners(cb) ==
    CASE cb = "update_filters"   -> {"update_ui", "reset_click_data"}
      [] cb = "reset_click_data" -> {"update_filters"}
      [] OTHER                   -> {}

\* The listeners of cb that already ran in the chain cb was requested in.
Circular(cb, preds) == Listeners(cb) \cap (preds \cup {cb})

\* The sets of callbacks that can be requested when cb, itself requested
\* with predecessors preds, has written its outputs: every listener that
\* has not run in the chain, with any of those that have.
requested(cb, preds) ==
    { (Listeners(cb) \ Circular(cb, preds)) \cup again :
        again \in SUBSET Circular(cb, preds) }

\* reset_click_data leaving the five props as they are (no_update).
reset_click_data_no_update == clickData

\* return None, None, None, None, None
reset_click_data == [d \in Dims |-> NoClick]

\* Callback cb has returned and requests the callbacks in new.
Request(cb, new) ==
    /\ pending' = (pending \ {cb}) \cup new
    /\ predecessors' =
          [l \in Callbacks |->
              IF l \in new THEN predecessors[cb] \cup {cb}
              ELSE IF l = cb THEN {}
              ELSE predecessors[l]]

\* Page load: none of the three callbacks has prevent_initial_call.
ChainInit ==
    /\ variant = "single"
    /\ \E raw \in RawTables :
          /\ raw.hasAlive
          /\ csv = raw
          /\ df = load_data(variant, raw)
    /\ store = create_layout
    /\ ui = NoUI
    /\ pending = Callbacks
    /\ last = [trigger |-> "", c |-> NoClick, prev |-> create_layout]
    /\ err = ""
    /\ clickData = NoClickData
    /\ predecessors = NoPredecessors

\* The user clicks an element of one chart: the chart's clickData changes
\* and update_filters runs, triggered by it.
UserClick ==
    /\ pending = {}
    /\ \E d \in Dims : \E c \in ClickData(d) \ {NoClick} :
          /\ c # clickData[d]
          /\ clickData' = [clickData EXCEPT ![d] = c]
          /\ LET r == update_filters(variant, TRUE, ChartOf[d], c, store)
             IN  /\ store' = r.out
                 /\ err' = r.exc
                 /\ \E new \in requested("update_filters", {}) :
                        Request("update_filters", IF r.exc = "" THEN new ELSE {})
          /\ last' = [trigger |-> ChartOf[d], c |-> c, prev |-> store]
    /\ UNCHANGED <<variant, csv, df, ui>>

\* The user clicks RESET FILTERS.
ResetButton ==
    /\ pending = {}
    /\ LET r == update_filters(variant, TRUE, "btn-reset", NoClick, store)
       IN  /\ store' = r.out
           /\ err' = r.exc
           /\ \E new \in requested("update_filters", {}) :
                  Request("update_filters", new)
    /\ last' = [trigger |-> "btn-reset", c |-> NoClick, prev |-> store]
    /\ UNCHANGED <<variant, csv, df, ui, clickData>>

\* update_filters requested by the page load (nothing triggered) or again
\* by reset_click_data's write to the five clickData props: ctx.triggered[0]
\* is then the first of them, fig_species.clickData.
RunUpdateFilters ==
    /\ "update_filters" \in pending
    /\ LET triggered == predecessors["update_filters"] # {}
           r == update_filters(variant, triggered, "fig_species",
                               clickData["species"], store)
       IN  /\ store' = r.out
           /\ err' = r.exc
           /\ \E new \in requested("update_filters", predecessors["update_filters"]) :
                  Request("update_filters", IF r.exc = "" THEN new ELSE {})
           /\ last' = IF triggered THEN last
                      ELSE [trigger |-> "", c |-> NoClick, prev |-> store]
    /\ UNCHANGED <<variant, csv, df, ui, clickData>>

\* reset_click_data, requested by a write to the stores.
RunResetClickData ==
    /\ "reset_click_data" \in pending
    /\ clickData' = reset_click_data
    /\ \E new \in requested("reset_click_data", predecessors["reset_click_data"]) :
          Request("reset_click_data", new)
    /\ UNCHANGED <<variant, csv, df, store, ui, last, err>>

\* update_ui, requested by a write to the stores.
RunUpdateUI ==
    /\ "update_ui" \in pending
    /\ LET r == update_ui_result
       IN  /\ ui' = IF r.exc = "" THEN r.out ELSE ui
           /\ err' = r.exc
    /\ Request("update_ui", {})
    /\ UNCHANGED <<variant, csv, df, store, last, clickData>>

ChainNext ==
    UserClick \/ ResetButton \/ RunUpdateFilters \/ RunResetClickData \/ RunUpdateUI

\* Every requested callback is run.
ChainSpec ==
    /\ ChainInit
    /\ [][ChainNext]_vars
    /\ WF_vars(RunUpdateFilters)
    /\ WF_vars(RunResetClickData)
    /\ WF_vars(RunUpdateUI)

(***************************************************************************)
(* One interaction cycle, computation by computation.  update_ui makes six *)
(* computations, each from df and the five selections it was called with:  *)
(* the KPI cards and the five charts.  Here they run one at a time in any  *)
(* order; pending holds the outputs not computed yet.                      *)
(***************************************************************************)
Outputs == {"kpi-container"} \cup Charts

\* Largest number of dimensions selected when the cycle starts.
MaxSelected == 2

\* Selection states the stores of variant v can hold (the copy variant
\* stores the year as a number only).
Selections(v) ==
    { s \in [Dims -> UNION {ClickValues[d] : d \in Dims} \cup {All}] :
        /\ \A d \in Dims : s[d] \in ClickValues[d] \cup {All}
        /\ (v = "copy" => s["year"].t # "str" \/ s["year"] = All)
        /\ Cardinality({d \in Dims : s[d] # All}) <= MaxSelected }

\* The frame one output of update_ui is computed from.
output_df(output, v, d0, selections) ==
    filter(v, d0, selections, ignore_dims_of(output)).out

\* ui with the result of one computation filled in.
SetOutput(u, output, kpi_df, d) ==
    CASE output = "kpi-container"           -> [u EXCEPT !.kpi = kpis(variant, kpi_df)]
      [] output = "fig_species"             -> [u EXCEPT !.d_species = d]
      [] output = "fig_intake_type"         -> [u EXCEPT !.d_intake = d]
      [] output = "fig_trend"               -> [u EXCEPT !.d_trend = d]
      [] output = "fig_outcomes_percentage" -> [u EXCEPT !.d_status = d]
      [] output = "fig_outcome_type"        -> [u EXCEPT !.d_outcome = d]

CycleInit ==
    /\ variant \in Variants
    /\ \E raw \in RawTables :
          /\ (variant = "single" => raw.hasAlive)
          /\ csv = raw
          /\ df = load_data(variant, raw)
    /\ store \in Selections(variant)
    /\ ui = [NoUI EXCEPT !.sel = store]
    /\ pending = Outputs
    /\ last = [trigger |-> "", c |-> NoClick, prev |-> create_layout]
    /\ err = ""
    /\ clickData = NoClickData
    /\ predecessors = NoPredecessors

\* The KPI cards computed from the species chart's frame as drawn so far.
ComputeKPI_from_drawn ==
    /\ "kpi-container" \in pending
    /\ pending' = pending \ {"kpi-container"}
    /\ ui' = [SetOutput(ui, "kpi-container",
                        filter(variant, ui.d_species, store, {}).out, <<>>)
                 EXCEPT !.drawn = (pending' = {})]
    /\ UNCHANGED <<clickData, predecessors, variant, csv, df, store, last, err>>

\* kpi_df = apply_filters(df, selections, ignore_dims=[]) and the KPI cards.
ComputeKPI ==
    /\ "kpi-container" \in pending
    /\ pending' = pending \ {"kpi-container"}
    /\ ui' = [SetOutput(ui, "kpi-container",
                        output_df("kpi-container", variant, df, store), <<>>)
                 EXCEPT !.drawn = (pending' = {})]
    /\ UNCHANGED <<clickData, predecessors, variant, csv, df, store, last, err>>

\* One chart: its frame filtered by the other four selections.
ComputeChart ==
    /\ \E chart \in Charts \cap pending :
          /\ pending' = pending \ {chart}
          /\ ui' = [SetOutput(ui, chart, <<>>, output_df(chart, variant, df, store))
                       EXCEPT !.drawn = (pending' = {})]
    /\ UNCHANGED <<clickData, predecessors, variant, csv, df, store, last, err>>

CycleNext == ComputeKPI \/ ComputeChart

CycleSpec == CycleInit /\ [][CycleNext]_vars

(***************************************************************************)
(* Selection-update rule                                                   *)
(***************************************************************************)
\* The stores after update_filters handles a click on d's chart carrying v.
Click(s, d, v) == update_filters(variant, TRUE, ChartOf[d], Point(v), s).out

\* C1 as stated: two successive ChartClick(d, v) return every selection
\* state s to itself, whatever d held in s.
C1_InvolutionAnyState ==
    \A d \in Dims : \A v \in ClickValues[d] :
        Click(Click(store, d, v), d, v) = store

\* C1 amended: two successive ChartClick(d, v) return s to itself when d was
\* "All" or was the value the first click clears; when d held another value
\* the two clicks leave d at "All" and the other four dimensions as in s.
C1_InvolutionFromAllOrSame ==
    \A d \in Dims : \A v \in ClickValues[d] :
        LET s1 == Click(store, d, v)
            s2 == Click(s1, d, v)
        IN  IF store[d] = All \/ s1[d] = All
            THEN s2 = store
            ELSE s2 = [store EXCEPT ![d] = All]

\* The second of two clicks on DOG has just cleared the species filter, and
\* a double click on CAT from a DOG selection is available as the other case.
C1_Witness ==
    /\ last.trigger = "fig_species"
    /\ last.c = Point(Str("DOG"))
    /\ last.prev.species = Str("DOG")
    /\ store.species = All
    /\ Click(Click(last.prev, "species", Str("CAT")), "species", Str("CAT")).species = All

\* C2: a click carrying v sets d to "All" when v and the current value of d
\* are equal as strings, and to v otherwise (v as a string; the copy variant
\* stores int(v) for the year).
C2_ToggleStringCompared ==
    \A d \in Dims : \A v \in ClickValues[d] :
        LET new == Click(store, d, v)[d]
        IN  IF str(v) = str(store[d]) THEN new = All ELSE str(new) = str(v)

\* C3: after the Reset event every one of the five dimensions is "All".
C3_ResetClearsAll ==
    last.trigger = "btn-reset" =>
        \A d \in Dims : store[d] = Str("All")

\* Reset has acted on a state with two filters set.
C3_Witness ==
    /\ last.trigger = "btn-reset"
    /\ last.prev.species # All
    /\ last.prev.year # All
    /\ store = Sel(All, All, All, All, All)

\* C4: a chart click without a value (clickData None, or a point carrying no
\* label / x / y) leaves the five dimensions unchanged and raises nothing.
C4_NullClickIsNoOp ==
    (last.trigger \in Charts /\ last.c \in {NoClick, BarePoint}) =>
        (store = last.prev /\ err = "")

(***************************************************************************)
(* Filter engine                                                           *)
(***************************************************************************)
\* The number a selected year stands for.
YearNumber(v) == IF v.t = "int" THEN v.n ELSE IntLiteral[v.s]

\* Record r satisfies the equality predicate of dimension d for selection v.
Satisfies(r, d, v) ==
    CASE d = "species" -> r.AnimalType = v.s
      [] d = "intake"  -> r.IntakeType = v.s
      [] d = "year"    -> r.IntakeYear = YearNumber(v)
      [] d = "status"  -> r.outcome_is_alive = (IF v = Str("Live") THEN "True" ELSE "False")
      [] OTHER         -> r.OutcomeType = v.s

\* Record r satisfies the predicate of every selected dimension outside I.
Matches(r, sel, I) ==
    \A d \in Dims \ I : sel[d] # All => Satisfies(r, d, sel[d])

\* S is D with some rows removed.
IsSubset(S, D) ==
    /\ \A i \in 1 .. Len(S) : \E j \in 1 .. Len(D) : S[i] = D[j]
    /\ \A i \in 1 .. Len(S) - 1 : S[i].idx < S[i + 1].idx

Filtered(sel, I) == filter(variant, df, sel, I).out

\* C5: for every ignored set I the filter returns a subset of the dataset,
\* each record of which satisfies the predicate of every selected dimension
\* outside I.
C5_FilterSound ==
    \A I \in SUBSET Dims :
        LET res == filter(variant, df, store, I)
        IN  /\ res.exc = ""
            /\ IsSubset(res.out, df)
            /\ \A i \in 1 .. Len(res.out) : Matches(res.out[i], store, I)

\* Two filters are set, and the filter keeps some records and drops others.
C5_Witness ==
    /\ pending = {}
    /\ store.species # All
    /\ store.year # All
    /\ Len(Filtered(store, {})) >= 1
    /\ Len(Filtered(store, {})) < Len(Filtered(store, {"species"}))
    /\ Len(Filtered(store, {"species"})) < Len(df)

\* C6: changing only the selected value of an ignored dimension does not
\* change the subset the filter returns: whatever the ignored dimensions
\* hold, the result is the one obtained with them set to "All".
C6_IgnoredNeverConstrains ==
    \A I \in SUBSET Dims :
        LET res == filter(variant, df, store, I)
        IN  \A d \in I : filter(variant, df, [store EXCEPT ![d] = All], I) = res

\* The species selection would drop records, and is ignored.
C6_Witness ==
    /\ store.species = Str("DOG")
    /\ Len(Filtered(store, {})) < Len(Filtered(store, {"species"}))
    /\ Filtered(store, {"species"}) = Filtered([store EXCEPT !.species = Str("CAT")], {"species"})

\* The subset update_ui drew the chart of dimension d from.
ChartDF(u, d) ==
    CASE d = "species" -> u.d_species
      [] d = "intake"  -> u.d_intake
      [] d = "year"    -> u.d_trend
      [] d = "status"  -> u.d_status
      [] OTHER         -> u.d_outcome

\* C7: each of the five charts is drawn from the records that satisfy the
\* other four selections, its own dimension ignored; when only its own
\* dimension is selected that is the whole dataset.
C7_SelfExclusion ==
    ui.drawn =>
        \A d \in Dims :
            /\ ChartDF(ui, d) = SelectSeq(df, LAMBDA r : Matches(r, ui.sel, {d}))
            /\ (\A e \in Dims \ {d} : ui.sel[e] = All) => ChartDF(ui, d) = df

\* Only species = DOG is selected: the species chart shows the whole dataset
\* while the other charts show the DOG records only.
C7_Witness ==
    /\ ui.drawn
    /\ ui.sel = Sel(Str("DOG"), All, All, All, All)
    /\ Len(df) >= 2
    /\ ui.d_species = df
    /\ Len(ui.d_intake) < Len(df)

\* C8: once the callbacks have settled, the KPI record and the chart subsets
\* shown are those of the current selection state.
C8_KpiFollowsState ==
    pending = {} =>
        /\ ui.drawn
        /\ ui.sel = store
        /\ ui.kpi = get_kpis(SelectSeq(df, LAMBDA r : Matches(r, store, {})))

\* A click has changed the state and the KPI record differs from the
\* unfiltered one.
C8_Witness ==
    /\ pending = {}
    /\ last.trigger \in Charts
    /\ store # last.prev
    /\ ui.sel = store
    /\ ui.kpi # get_kpis(df)
    /\ ui.kpi.intakes >= 1

\* C9: with the year selected and not ignored, the filter keeps exactly the
\* records (of those the other selections keep) whose intake year is the
\* selected year, whatever their outcome year.
C9_YearIsIntakeYear ==
    \A I \in SUBSET (Dims \ {"year"}) :
        store.year # All =>
            Filtered(store, I) =
                SelectSeq(Filtered([store EXCEPT !.year = All], I),
                          LAMBDA r : r.IntakeYear = YearNumber(store.year))

\* The year filter keeps a record whose outcome year is another year and
\* drops one whose outcome year is the selected year.
C9_Witness ==
    /\ store.year # All
    /\ \E i \in 1 .. Len(Filtered(store, {})) :
          Filtered(store, {})[i].OutcomeYear # YearNumber(store.year)
    /\ \E j \in 1 .. Len(df) :
          /\ df[j].OutcomeYear = YearNumber(store.year)
          /\ \A i \in 1 .. Len(Filtered(store, {})) : Filtered(store, {})[i] # df[j]
          /\ \E i \in 1 .. Len(Filtered(store, {"year"})) : Filtered(store, {"year"})[i] = df[j]

\* Membership of a record in a sequence of records.
In(r, S) == \E i \in 1 .. Len(S) : S[i] = r

\* C10: with the status selected and not ignored, "Live" keeps exactly the
\* records whose is-live-outcome is true and any other selection exactly those
\* whose is-live-outcome is false; every record of the dataset is in exactly
\* one of the two groups.
C10_StatusPartition ==
    /\ \A I \in SUBSET (Dims \ {"status"}) :
          store.status # All =>
              Filtered(store, I) =
                  SelectSeq(Filtered([store EXCEPT !.status = All], I),
                            LAMBDA r : r.outcome_is_alive =
                                (IF store.status = Str("Live") THEN "True" ELSE "False"))
    /\ \A j \in 1 .. Len(df) :
          In(df[j], Filtered([AllFive EXCEPT !.status = Str("Live")], {}))
              # In(df[j], Filtered([AllFive EXCEPT !.status = Str("Non-Live")], {}))

\* C11: for every reachable selection state and every ignored set the filter
\* raises nothing and returns a subset of the dataset, the empty one when no
\* record matches.
C11_FilterNeverFails ==
    \A I \in SUBSET Dims :
        LET res == filter(variant, df, store, I)
        IN  /\ res.exc = ""
            /\ IsSubset(res.out, df)
            /\ (\A j \in 1 .. Len(df) : ~Matches(df[j], store, I)) => res.out = <<>>

\* Two selections that no record of a non-empty dataset satisfies together
\* have been drawn: the filter returned the empty subset.
C11_Witness ==
    /\ pending = {}
    /\ Len(df) > 0
    /\ store.species # All
    /\ store.outcome # All
    /\ ui.drawn
    /\ ui.sel = store
    /\ filter(variant, df, store, {}) = Return(<<>>)
    /\ Filtered(store, {"species"}) # <<>>

(***************************************************************************)
(* Dataset                                                                 *)
(***************************************************************************)
\* C12: the dataset is immutable after load: whatever clicks, resets and
\* filter, KPI and chart computations have run, df is still the table that
\* load_data built from the file, record for record and in the same order.
C12_DatasetImmutable == df = load_data(variant, csv)

\* Clicks have been handled and update_ui has filtered records away, and the
\* dataset is the loaded one.
C12_Witness ==
    /\ Len(df) > 0
    /\ last.trigger \in Charts
    /\ ui.drawn
    /\ ui.sel = store
    /\ ui.kpi.intakes < Len(df)
    /\ Len(ui.d_trend) < Len(df)
    /\ df = load_data(variant, csv)

(***************************************************************************)
(* Interaction cycle                                                       *)
(***************************************************************************)
\* The value update_ui, run in its own order, gives one output.
Sequential(output) ==
    LET u == update_ui(variant, df, store).out
    IN  IF output = "kpi-container" THEN u.kpi ELSE ChartDF(u, DimOf(output))

\* The value the cycle has computed for one output.
Computed(output) ==
    IF output = "kpi-container" THEN ui.kpi ELSE ChartDF(ui, DimOf(output))

\* C13: the six computations of a cycle read the dataset and the selection
\* state and write neither, so in whatever order they run, each output
\* computed so far is the one update_ui computes for it, the dataset is the
\* loaded one and the selection state is the one the cycle started with.
C13_OrderIndependent ==
    /\ df = load_data(variant, csv)
    /\ ui.sel = store
    /\ update_ui(variant, df, store).exc = ""
    /\ \A o \in Outputs \ pending : Computed(o) = Sequential(o)
    /\ pending = {} => ui = update_ui(variant, df, store).out

\* The KPI cards were computed after the charts (update_ui computes them
\* first), under a selection that makes the six frames differ.
C13_Witness ==
    /\ pending = {"kpi-container"}
    /\ store.species # All
    /\ store.year # All
    /\ Len(ui.d_species) > Len(ui.d_intake)
    /\ ui.d_trend # ui.d_species
    /\ Len(ui.d_intake) >= 1
    /\ ui.d_status = Sequential("fig_outcomes_percentage")

(***************************************************************************)
(* Aggregator                                                              *)
(***************************************************************************)
\* C14: on the KPI path of every variant the KPI record of an empty subset is
\* the zero record (intakes 0, outcomes 0, average stay 0.0, adoptions 0,
\* live-release rate 0.0) and nothing is raised, also when it is the filter
\* that matches nothing.
C14_EmptyKpiIsZero ==
    /\ kpis(variant, <<>>) = KPI(0, 0, Zero1f, 0, Zero1f)
    /\ update_ui(variant, df, store).exc = ""
    /\ (ui.drawn /\ Filtered(ui.sel, {}) = <<>>) => ui.kpi = KPI(0, 0, Zero1f, 0, Zero1f)

\* update_ui has drawn a selection that matches no record of a non-empty
\* dataset.
C14_Witness ==
    /\ pending = {}
    /\ err = ""
    /\ Len(df) > 0
    /\ ui.drawn
    /\ ui.sel = store
    /\ store # AllFive
    /\ Filtered(store, {}) = <<>>
    /\ ui.kpi = KPI(0, 0, Zero1f, 0, Zero1f)

\* Number of records of S with an outcome date.
Outcomes(S) == Cardinality({i \in 1 .. Len(S) : S[i].OutcomeDate # NaT})

\* Number of records of S whose is-live-outcome is true.
LiveOutcomes(S) ==
    Cardinality({i \in 1 .. Len(S) : S[i].outcome_is_alive = "True"})

\* k is the KPI record of subset S as far as outcomes and rate go: the rate,
\* in tenths of a percent, is the nearest to live / outcomes x 100.
RateOf(k, S) ==
    /\ k.outcomes = Outcomes(S)
    /\ IF Outcomes(S) = 0 THEN k.lrr = Zero1f
       ELSE LET diff == k.lrr.tenths * Outcomes(S) - 1000 * LiveOutcomes(S)
            IN  /\ ~k.lrr.neg
                /\ 2 * diff <= Outcomes(S) /\ -2 * diff <= Outcomes(S)

\* C15: for every subset (here the records loaded from any choice of rows),
\* the total outcome count is the number of records with a non-null outcome
\* date, and the live-release rate (printed with one decimal) is live
\* outcomes / total outcome count x 100, or 0 when the total outcome count
\* is 0; so is the KPI record drawn.
C15_OutcomesAndRate ==
    /\ RateOf(kpis(variant, df), df)
    /\ ui.drawn => RateOf(ui.kpi, Filtered(ui.sel, {}))

\* The KPI record drawn counts four intakes, three outcomes and one live
\* outcome: the rate is 33.3.
C15_Witness ==
    /\ ui.drawn
    /\ ui.kpi.intakes = 4
    /\ ui.kpi.outcomes = 3
    /\ LiveOutcomes(df) = 1
    /\ ui.kpi.lrr = Fixed1(FALSE, 333)

\* C16 as stated: on the five-record sample the KPI record over all records
\* has intakes = 5, adoptions = 2 and live-release rate = 80.0%.
C16_SampleKpisTwoAdoptions ==
    (ui.drawn /\ ui.sel = AllFive) =>
        /\ ui.kpi.intakes = 5
        /\ ui.kpi.adoptions = 2
        /\ ui.kpi.lrr = Fixed1(FALSE, 800)

\* C16 amended: on the five-record sample the KPI record over all records
\* has intakes = 5, adoptions = 3 (the two DOG and the one CAT adoption),
\* outcomes = 5 and live-release rate = 80.0%.
C16_SampleKpis ==
    /\ kpis(variant, df) = [kpis(variant, df) EXCEPT
            !.intakes = 5, !.outcomes = 5, !.adoptions = 3, !.lrr = Fixed1(FALSE, 800)]
    /\ (ui.drawn /\ ui.sel = AllFive) =>
            /\ ui.kpi.intakes = 5
            /\ ui.kpi.outcomes = 5
            /\ ui.kpi.adoptions = 3
            /\ ui.kpi.lrr = Fixed1(FALSE, 800)

\* The sample is loaded and update_ui has drawn the KPIs of the unfiltered
\* state, after a reset that cleared a selection.
C16_Witness ==
    /\ Len(df) = 5
    /\ Len(SelectSeq(df, LAMBDA r : r.AnimalType = "DOG" /\ r.OutcomeType = "ADOPTION")) = 2
    /\ pending = {}
    /\ last.trigger = "btn-reset"
    /\ last.prev # AllFive
    /\ ui.drawn
    /\ ui.sel = AllFive
    /\ ui.kpi.intakes = 5

\* Sum of the Count column.
RECURSIVE SumCounts(_)
SumCounts(counts) ==
    IF counts = <<>> THEN 0 ELSE Head(counts).Count + SumCounts(Tail(counts))

\* The grouped dimensions.
Grouped == {"species", "intake", "outcome", "status"}

\* counts is in non-increasing order of count and accounts for every record
\* of S.
GroupsAll(counts, S) ==
    /\ \A i \in 1 .. Len(counts) - 1 : counts[i].Count >= counts[i + 1].Count
    /\ SumCounts(counts) = Len(S)

\* C17: for every subset and every grouped dimension (species, intake type,
\* outcome type, outcome status) the untruncated grouped counts are in
\* non-increasing order of count and sum to the number of records of the
\* subset.
C17_GroupCountsComplete ==
    /\ \A dim \in Grouped : GroupsAll(value_counts(df, dim), df)
    /\ ui.drawn => \A dim \in Grouped :
          GroupsAll(value_counts(ChartDF(ui, dim), dim), ChartDF(ui, dim))

\* Sum of the y of a trace.
RECURSIVE SumY(_)
SumY(points) ==
    IF points = <<>> THEN 0 ELSE Head(points).y + SumY(Tail(points))

\* The years 2021 and 2022 as the trend chart of the variant labels them.
YearLabels == {trend_x(variant, IntLiteral[lit]) : lit \in DOMAIN IntLiteral}

\* The trace counts exactly the records of S that have a year of the kind,
\* under the labels of real years.
SeriesOf(points, S, col) ==
    /\ SumY(points) = Cardinality({i \in 1 .. Len(S) : year_of(S[i], col) # NaT})
    /\ \A i \in 1 .. Len(points) :
          /\ points[i].x \in YearLabels
          /\ points[i].y =
                Cardinality({j \in 1 .. Len(S) :
                    year_of(S[j], col) # NaT /\
                    trend_x(variant, year_of(S[j], col)) = points[i].x})
    /\ \A i, j \in 1 .. Len(points) : i # j => points[i].x # points[j].x

\* C18: the intake-year and the outcome-year series of the trend chart are
\* built over the same subset, the one filtered with the year dimension
\* ignored; a record without a year of a kind is left out of that series,
\* so each series sums to the number of records of the subset that have a
\* year of that kind, and no series has a point for a sentinel year.
C18_TrendExcludesNullYears ==
    ui.drawn =>
        LET fig == create_trend_chart(variant, ui.d_trend)
        IN  /\ ui.d_trend = Filtered(ui.sel, {"year"})
            /\ fig.nodata = (ui.d_trend = <<>>)
            /\ SeriesOf(fig.Intake, ui.d_trend, "Intake Year")
            /\ SeriesOf(fig.Outcome, ui.d_trend, "Outcome Year")

\* A year is selected, and the trend chart is drawn from a subset that holds
\* a record without intake year, one without outcome year, and records of
\* other intake years than the selected one.
C18_Witness ==
    /\ ui.drawn
    /\ ui.sel = store
    /\ store.year # All
    /\ \E i \in 1 .. Len(ui.d_trend) : ui.d_trend[i].IntakeYear = NaT
    /\ \E i \in 1 .. Len(ui.d_trend) : ui.d_trend[i].OutcomeYear = NaT
    /\ Len(ui.d_trend) > ui.kpi.intakes
    /\ SumY(create_trend_chart(variant, ui.d_trend).Intake) < Len(ui.d_trend)
    /\ SumY(create_trend_chart(variant, ui.d_trend).Outcome) < Len(ui.d_trend)

(***************************************************************************)
(* Dataset normalizer                                                      *)
(***************************************************************************)
\* max(0, outcome date - intake date) in days, 0 when a date is absent.
StayOf(r) ==
    IF r.OutcomeDate = NaT \/ r.IntakeDate = NaT THEN 0
    ELSE IF r.OutcomeDate - r.IntakeDate < 0 THEN 0
    ELSE r.OutcomeDate - r.IntakeDate

\* C19: every record of the loaded dataset has a stay duration that is a
\* non-negative whole number of days, equal to max(0, outcome date - intake
\* date) and to 0 when the outcome date is absent, whether or not the file
\* has a duration column of its own.
C19_DurationDerived ==
    \A i \in 1 .. Len(df) :
        /\ df[i].intake_duration \in Nat
        /\ df[i].intake_duration = StayOf(df[i])

\* C20: when the file has no outcome_is_alive column, is-live-outcome is
\* true exactly for the records whose outcome type is one of ADOPTION,
\* TRANSFER, RETURN TO OWNER, RTOS, RELOCATE: RTOS is live, EUTHANASIA is
\* not.
C20_LiveDerivedFromOutcomeType ==
    ~csv.hasAlive =>
        \A i \in 1 .. Len(df) :
            /\ df[i].outcome_is_alive \in {"True", "False"}
            /\ (df[i].outcome_is_alive = "True") <=>
                   (df[i].OutcomeType \in
                       {"ADOPTION", "TRANSFER", "RETURN TO OWNER", "RTOS", "RELOCATE"})
            /\ df[i].OutcomeType = "RTOS" => df[i].outcome_is_alive = "True"
            /\ df[i].OutcomeType = "EUTHANASIA" => df[i].outcome_is_alive = "False"

\* A cell of the file that is missing, empty or whitespace only.
Blank(cell) == cell = NA \/ str_strip(cell) = ""

\* The loaded value is a trimmed, non-empty string, "Unknown" for a blank
\* cell of the file.
Normalized(value, cell) ==
    /\ value # NA
    /\ value # ""
    /\ str_strip(value) = value
    /\ Blank(cell) => value = "Unknown"

\* C21: after load every record's species, intake type and outcome type is a
\* trimmed, non-empty string; a value that is missing, empty or whitespace
\* only in the file is "Unknown".
C21_TextNormalized ==
    \A i \in 1 .. Len(df) :
        /\ Normalized(df[i].AnimalType, csv.rows[i].species)
        /\ Normalized(df[i].IntakeType, csv.rows[i].intake)
        /\ Normalized(df[i].OutcomeType, csv.rows[i].outcome)

\* C22: when the file is unavailable, load_data returns a non-empty dataset,
\* the same on every run, that carries all derived fields, and the KPI and
\* chart computations that follow do not fail.
C22_SyntheticFallback ==
    csv = FileNotFound =>
        /\ Len(df) > 0
        /\ df = load_dummy(variant)
        /\ has_columns(variant, csv)
        /\ \A i \in 1 .. Len(df) :
              /\ df[i].intake_duration = df[i].OutcomeDate - df[i].IntakeDate
              /\ df[i].outcome_is_alive \in {"True", "False"}
              /\ df[i].IntakeYear = dt_year(df[i].IntakeDate)
              /\ df[i].OutcomeYear = dt_year(df[i].OutcomeDate)
        /\ update_ui_result.exc = ""

\* A name that is none of the five dimensions, and the chart id made from it.
InvalidDim == "breed"

InvalidChart == "fig_breed"

\* The stores with one more key, the invalid name, set to a value.
WithInvalidKey(sel) ==
    [k \in Dims \cup {InvalidDim} |-> IF k \in Dims THEN sel[k] ELSE Str("DOG")]

\* C23: an invalid dimension name given to the filter, as an ignored
\* dimension or as a selection key, or to update_filters as the clicked
\* chart, produces an error and never the normal result or the unchanged
\* state.
C23_InvalidDimensionFails ==
    /\ \A I \in SUBSET Dims :
          filter(variant, df, store, I \cup {InvalidDim}).exc # ""
    /\ filter(variant, df, WithInvalidKey(store), {}).exc # ""
    /\ \A c \in ClickData("species") :
          update_filters(variant, TRUE, InvalidChart, c, store).exc # ""

\* C24: the stores start as "All" five times, and in every reachable state
\* each holds "All" or a value of its domain: a category string for
\* species, intake type and outcome type, an integer for the year, Live or
\* Non-Live for the outcome status.
C24_SelectionInDomain ==
    /\ create_layout = AllFive
    /\ \A d \in {"species", "intake", "outcome"} : store[d].t = "str"
    /\ store.year = All \/ store.year.t = "int"
    /\ store.status \in {All, Str("Live"), Str("Non-Live")}

\* The selection species = "DOG", every other dimension "All".
OnlyDogs == [AllFive EXCEPT !.species = Str("DOG")]

\* C25: every record of the dataset that satisfies the predicate of every
\* selected dimension outside I is in the filter's result; on the sample
\* the selection species = "DOG" with nothing ignored gives exactly the
\* three DOG records.
C25_FilterComplete ==
    /\ \A I \in SUBSET Dims : \A j \in 1 .. Len(df) :
          Matches(df[j], store, I) => In(df[j], Filtered(store, I))
    /\ Filtered(OnlyDogs, {}) = <<df[1], df[2], df[4]>>
    /\ \A j \in 1 .. Len(df) : df[j].AnimalType = "DOG" <=> j \in {1, 2, 4}
    /\ (ui.drawn /\ ui.sel = OnlyDogs) => ui.kpi.intakes = 3

C25_Witness ==
    /\ Len(df) = 5
    /\ store = OnlyDogs
    /\ last.trigger = "fig_species"
    /\ pending = {}
    /\ ui.drawn
    /\ ui.sel = OnlyDogs
    /\ ui.kpi.intakes = 3

\* C26: after update_filters has handled a click on one chart, the four
\* stores of the other dimensions hold the values they held before it.
C26_ClickFrame ==
    last.trigger \in Charts =>
        \A e \in Dims \ {DimOf(last.trigger)} : store[e] = last.prev[e]

C26_Witness ==
    /\ last.trigger = "fig_species"
    /\ last.prev.species = All
    /\ store.species = Str("DOG")
    /\ last.prev.year # All
    /\ last.prev.status # All
    /\ store.year = last.prev.year
    /\ store.status = last.prev.status

\* C27: for every dataset load_data produces (here the records loaded from
\* any choice of rows) the live outcomes counted by the KPI computation are
\* at most the outcomes counted, and the live-release rate, in tenths of a
\* percent, is between 0 and 1000; so is the KPI record drawn.
C27_RateWithinBounds ==
    /\ LiveOutcomes(df) <= Outcomes(df)
    /\ kpis(variant, df).lrr.tenths \in 0 .. 1000
    /\ ui.drawn => ui.kpi.lrr.tenths \in 0 .. 1000

\* The records of frame S (each carries its index label).
RecordsOf(S) == {S[i] : i \in 1 .. Len(S)}

\* C28: for every dataset and selection a cycle starts with, when ignored
\* set I1 is contained in I2 the filter's result for I1 is a subset of its
\* result for I2; once the six outputs are computed, the subset of the KPI
\* cards is contained in the subset of each of the five charts.
C28_FilterMonotone ==
    /\ pending = Outputs =>
          \A I2 \in SUBSET Dims :
              LET B == RecordsOf(Filtered(store, I2))
              IN  \A I1 \in SUBSET I2 : RecordsOf(Filtered(store, I1)) \subseteq B
    /\ pending = {} =>
          /\ ui.drawn
          /\ \A d \in Dims :
                RecordsOf(Filtered(ui.sel, {})) \subseteq RecordsOf(ChartDF(ui, d))

C28_Witness ==
    /\ pending = {}
    /\ ui.drawn
    /\ ui.sel = store
    /\ store.species # All
    /\ store.outcome # All
    /\ Len(Filtered(store, {})) > 0
    /\ Len(Filtered(store, {})) < Len(ui.d_outcome)
    /\ Len(ui.d_outcome) < Len(Filtered(store, {"outcome", "species"}))

(***************************************************************************)
(* Click reset of the single file                                          *)
(***************************************************************************)
\* C29: in the single file, once the stores were updated and no callback is
\* requested any more (the user can click again), the clickData of all five
\* charts is None, so a click on the element clicked before changes the
\* prop and reaches update_filters; and when the click handled carried the
\* value the dimension's store held, that store is "All".
C29_ClickDataReset ==
    (pending = {} /\ err = "") =>
        /\ \A d \in Dims : clickData[d] = NoClick
        /\ \A d \in Dims : store[d] # All => Point(store[d]) # clickData[d]
        /\ (last.trigger \in Charts /\ last.c.key
              /\ last.c.val = last.prev[DimOf(last.trigger)]) =>
                 store[DimOf(last.trigger)] = All

\* The second click on DOG has been handled: the species store is clear
\* again and the props are None.
C29_Witness ==
    /\ pending = {}
    /\ err = ""
    /\ last.trigger = "fig_species"
    /\ last.c = Point(Str("DOG"))
    /\ last.prev.species = Str("DOG")
    /\ store.species = All
    /\ clickData = NoClickData
    /\ ui.drawn
    /\ ui.sel = store

\* The stores as the click last handled left them.
SetByClick == update_filters(variant, TRUE, last.trigger, last.c, last.prev).out

\* The values are at rest: every clickData is None and update_ui has drawn
\* the selection the stores hold.
Quiescent ==
    /\ clickData = NoClickData
    /\ ui.drawn
    /\ ui.sel = store

====
